---- MODULE Spec2Model ----
(***************************************************************************)
(* A model of the quicktest assertion library: the Check/Assert dispatch   *)
(* (quicktest.go), the failure report renderer (report.go), the value      *)
(* formatter (format.go), the Not, Equals and DeepEquals checkers          *)
(* (checker.go), the Eventually checker, the deferred function list of a C *)
(* with Defer and Done, alone and shared by goroutines, and Run and        *)
(* Parallel (quicktest.go), the pattern and error checkers, Patch, Setenv   *)
(* and Unsetenv (patch.go) and the source excerpt of a report.             *)
(***************************************************************************)
EXTENDS Integers, Sequences, FiniteSets, TLC

VARIABLES
    pc,        \* "new": a C was just made by New; "returned": its Check/Assert ended
    tb,        \* the reports the testing object received through Error and Fatal
    call,      \* the Check/Assert call made on the C and what it did
    negation,  \* the last run of a Not^n(C) checker, with C and Not(C) beside it
    deferred,  \* c.deferred: the registered functions, the last added first
    done,      \* the run of c.Done in progress or last finished: the functions
               \* left to call, those it called, those registered when it began,
               \* and all the functions any Done of the C has called
    regs,      \* the functions passed to Defer since the last Done, in call order
    registered,\* every function passed to Defer on the C, in call order
    sub,       \* a Run or Parallel call on a parent C and the subtest it runs
    conc,      \* goroutines calling Defer and Done on one C, each at its own step
    ev,        \* a run of an Eventually checker: its attempts and its result
    eq,        \* a value compared with a copy of it by Equals and by DeepEquals
    test,      \* the entry of a table-driven test under way and what it gave
    patch      \* the variables and the environment a test patches, and the
               \* steps of the test so far

vars == <<pc, tb, call, negation, deferred, done, regs, registered, sub, conc, ev, eq, test, patch>>

(***************************************************************************)
(* Bounds of the model.                                                    *)
(***************************************************************************)
\* longest argument list handed to Check/Assert (a trailing Comment included)
MaxArgs == 2
\* most notes one invocation of a user-implemented checker emits
MaxNotes == 2
\* deepest nesting Not(Not(...(C))) that is built
MaxNot == 4
\* most functions registered with Defer on one C
MaxDeferred == 3
\* most arguments besides got that a user-implemented checker declares
MaxArity == 1
\* most calls of C methods one goroutine makes on a C it shares
MaxOps == 2
\* most attempts a retry strategy allows before its time is up
MaxAttempts == 3
\* most lines a source file shown in a report holds
MaxLines == 9

(***************************************************************************)
(* Go values (interface{}): a dynamic type t and a printed content v.      *)
(***************************************************************************)
Int42 == [t |-> "int", v |-> "42"]
\* a value of an uncomparable dynamic type
Slice42 == [t |-> "[]int", v |-> "42"]
Str(s) == [t |-> "string", v |-> s]
Unquoted(s) == [t |-> "Unquoted", v |-> s]
\* Commentf(format, arg): the text is format followed by the formatted arg
Commentf(format, arg) == [t |-> "Comment", v |-> format \o arg]
\* Comment.String
CommentString(c) == c.v
\* the zero Comment{}
NoComment == Commentf("", "")
\* the type assertion x.(Comment)
IsComment(x) == x.t = "Comment"

\* strconv.Quote for strings holding neither a double quote nor a newline
quoteString(s) == "\"" \o s \o "\""

\* fmt.Sprintf("%# v", pretty.Formatter(x)): int(42), []int{42}
pretty(x) ==
    IF x.t = "int" THEN x.t \o "(" \o x.v \o ")" ELSE x.t \o "{" \o x.v \o "}"

\* calling the Error or String method of v panics
MethodPanics(v) == "panics" \in DOMAIN v /\ v.panics

\* reflect.ValueOf(v) is a pointer and is nil
IsNilPtr(v) == "recv" \in DOMAIN v /\ v.recv = "nil pointer"

\* checkStringCall(v, f): what f returned and whether the call succeeded;
\* the deferred function recovers a panic of f, and panics again with the
\* recovered value unless v is a nil pointer
checkStringCall(v) ==
    IF ~MethodPanics(v) THEN [s |-> v.v, ok |-> TRUE, panic |-> ""]
    ELSE IF IsNilPtr(v) THEN [s |-> "", ok |-> FALSE, panic |-> ""]
    ELSE [s |-> "", ok |-> FALSE, panic |-> "panic in method of " \o v.t]

\* a call of Format: the string it returns, or the value it panics with.
\* Errors are tagged e, Stringers (a Comment is one) are tagged s, strings
\* are quoted, everything else is pretty-printed.
FormatCall(x) ==
    CASE x.t = "error" ->
             LET r == checkStringCall(x)
             IN IF r.panic # "" THEN [panic |-> r.panic, s |-> ""]
                ELSE IF ~r.ok THEN [panic |-> "", s |-> "e<nil>"]
                ELSE IF "detail" \in DOMAIN x /\ x.detail # r.s
                THEN [panic |-> "", s |-> x.detail]
                ELSE [panic |-> "", s |-> "e" \o quoteString(r.s)]
      [] x.t \in {"fmt.Stringer", "Comment"} ->
             LET r == checkStringCall(x)
             IN IF r.panic # "" THEN [panic |-> r.panic, s |-> ""]
                ELSE IF ~r.ok THEN [panic |-> "", s |-> "s<nil>"]
                ELSE [panic |-> "", s |-> "s" \o quoteString(r.s)]
      [] x.t = "string" -> [panic |-> "", s |-> quoteString(x.v)]
      [] OTHER -> [panic |-> "", s |-> pretty(x)]

\* the string Format returns
Format(x) == FormatCall(x).s

(***************************************************************************)
(* Errors returned by checkers.                                            *)
(***************************************************************************)
NoErr == [kind |-> "nil", msg |-> ""]
errorsNew(msg) == [kind |-> "normal", msg |-> msg]
BadCheckf(msg) == [kind |-> "bad", msg |-> msg]
IsBadCheck(err) == err.kind = "bad"
ErrSilent == [kind |-> "silent", msg |-> "silent failure"]

(***************************************************************************)
(* The report renderer.                                                    *)
(***************************************************************************)
prefix == "  "

\* prefixf for a single-line text: the prefix, the text, a newline
prefixf(pre, s) == pre \o s \o "\n"

\* values[v] of a Go map[string]string: the zero value "" when v is absent
MapGet(values, v) == IF v \in DOMAIN values THEN values[v] ELSE ""

MapPut(values, v, key) ==
    [x \in (DOMAIN values) \cup {v} |-> IF x = v THEN key ELSE values[x]]

EmptyMap == [x \in {} |-> ""]

\* the rendered value string of a section: Unquoted as is, others formatted
Rendered(value) ==
    IF value.t = "Unquoted" THEN value.v ELSE Format(value)

\* printPair: st is the writer and the values table so far
printPair(st, key, value) ==
    LET v == Rendered(value)
        k == MapGet(st.values, v)
    IN IF k # ""
       THEN [out |-> Append(st.out, [key |-> key, v |-> v, same |-> TRUE,
                       body |-> prefixf(prefix, "<same as " \o quoteString(k) \o ">")]),
             values |-> st.values]
       ELSE [out |-> Append(st.out, [key |-> key, v |-> v, same |-> FALSE,
                       body |-> prefixf(prefix, v)]),
             values |-> MapPut(st.values, v, key)]

RECURSIVE printPairs(_, _)
printPairs(st, pairs) ==
    IF pairs = <<>> THEN st
    ELSE printPairs(printPair(st, pairs[1].key, pairs[1].value), Tail(pairs))

\* the checker error section
ErrorPairs(err) ==
    IF err # ErrSilent
    THEN << [key |-> "error", value |-> Unquoted(err.msg)] >>
    ELSE << >>

\* the comment section
CommentPairs(p) ==
    IF CommentString(p.comment) # ""
    THEN << [key |-> "comment", value |-> Unquoted(CommentString(p.comment))] >>
    ELSE << >>

\* got and the args hidden for BadCheck errors alone
ArgPairsBadOnly(err, p) ==
    IF IsBadCheck(err)
    THEN << >>
    ELSE LET all == <<p.got>> \o p.args
         IN [i \in 1..Len(all) |-> [key |-> p.argNames[i], value |-> all[i]]]

\* got and the args under the checker's argument names
ArgPairs(err, p) ==
    IF IsBadCheck(err) \/ err = ErrSilent
    THEN << >>
    ELSE LET all == <<p.got>> \o p.args
         IN [i \in 1..Len(all) |-> [key |-> p.argNames[i], value |-> all[i]]]

\* the comment written before the error
SectionPairsCommentFirst(err, p) ==
    CommentPairs(p) \o ErrorPairs(err) \o p.notes \o ArgPairs(err, p)

\* the sections in the order writeError prints them
SectionPairs(err, p) ==
    ErrorPairs(err) \o CommentPairs(p) \o p.notes \o ArgPairs(err, p)

writeError(err, p) ==
    printPairs([out |-> << >>, values |-> EmptyMap], SectionPairs(err, p)).out

RECURSIVE Join(_, _)
\* strings.Join
Join(strs, sep) ==
    IF strs = << >> THEN ""
    ELSE IF Len(strs) = 1 THEN strs[1]
    ELSE strs[1] \o sep \o Join(Tail(strs), sep)

\* the number of lines of code shown on each side of the call site
contextLines == 3

RECURSIVE scanLines(_, _, _)
\* a loop that leaves out the last line of the context
scanLinesShort(f, line, current) ==
    IF current + 1 > f.last \/ current + 1 = f.badLine THEN << >>
    ELSE IF current + 1 >= line + contextLines THEN << >>
    ELSE IF current + 1 < line - contextLines THEN scanLines(f, line, current + 1)
    ELSE << [n |-> current + 1, mark |-> current + 1 = line,
             text |-> ToString(current + 1)
                      \o (IF current + 1 = line THEN "!" ELSE "")
                      \o "\t" \o f.name \o " line " \o ToString(current + 1)] >>
         \o scanLines(f, line, current + 1)

\* the loop over sc.Scan() once current lines are read: what it writes to the
\* tabwriter, each line with its number and whether it bears the mark. Scan
\* returns false at the end of the file and at a line it cannot read.
scanLines(f, line, current) ==
    IF current + 1 > f.last \/ current + 1 = f.badLine THEN << >>
    ELSE IF current + 1 > line + contextLines THEN << >>
    ELSE IF current + 1 < line - contextLines THEN scanLines(f, line, current + 1)
    ELSE << [n |-> current + 1, mark |-> current + 1 = line,
             text |-> ToString(current + 1)
                      \o (IF current + 1 = line THEN "!" ELSE "")
                      \o "\t" \o f.name \o " line " \o ToString(current + 1)] >>
         \o scanLines(f, line, current + 1)

\* writeInvocation, given what runtime.Caller(4) returns and the file it
\* names: the lines written under the heading, the lines of code with their
\* number n and the others with n = 0
writeInvocation(caller) ==
    LET text(pre, str) == [n |-> 0, mark |-> FALSE, text |-> pre \o str]
        f == caller.file
        ls == scanLines(f, caller.line, 0)
    IN IF ~caller.ok
       THEN << text(prefix, "<invocation not available>") >>
       ELSE << text(prefix, f.name \o ":" \o ToString(caller.line) \o ":") >>
            \o IF ~f.opens
               THEN << text(prefix \o prefix, "<cannot open source file: open " \o f.name
                                              \o ": no such file or directory>") >>
               ELSE [i \in 1..Len(ls) |-> [ls[i] EXCEPT !.text = prefix \o prefix \o @]]
                    \o IF f.badLine # 0 /\ f.badLine <= f.last
                          /\ f.badLine <= caller.line + contextLines + 1
                       THEN << text(prefix \o prefix, "<cannot scan source file: "
                                                     \o "bufio.Scanner: token too long>") >>
                       ELSE IF \A i \in 1..Len(ls) : ~ls[i].mark
                       THEN << text(prefix \o prefix, "<cannot find source lines>") >>
                       ELSE << >>

\* the frame of the c.Check or c.Assert call of the tests
CallSite ==
    [ok |-> TRUE, line |-> 5,
     file |-> [name |-> "quicktest_test.go", opens |-> TRUE, last |-> 9, badLine |-> 0]]

\* the sources section of a report
Sources ==
    << [key |-> "sources", v |-> "", same |-> FALSE,
        body |-> Join([i \in 1..Len(writeInvocation(CallSite)) |->
                          writeInvocation(CallSite)[i].text \o "\n"], "")] >>

report(err, p) == writeError(err, p) \o Sources

(***************************************************************************)
(* Checkers.                                                               *)
(***************************************************************************)
\* the nil Checker interface value
NilChecker == [kind |-> "nil"]

Equals == [kind |-> "equals", name |-> "equals", argNames |-> <<"got", "want">>]

\* A user-implemented Checker, described by what one invocation of its Check
\* method does: the notes it emits and how it ends.
UserChecker(argNames, result, notes) ==
    [kind |-> "user", name |-> "user", argNames |-> argNames,
     result |-> result, notes |-> notes]

Not(checker) ==
    [kind |-> "not", name |-> "not(" \o checker.name \o ")",
     argNames |-> checker.argNames, checker |-> checker]

ArgNames(checker) == checker.argNames

\* dynamic types on which == panics
Uncomparable == {"[]int", "Comment"}

\* got != want on two interface values: [panicked, differ]
ifaceNotEqual(got, want) ==
    IF got.t # want.t THEN [panicked |-> FALSE, differ |-> TRUE]
    ELSE IF got.t \in Uncomparable THEN [panicked |-> TRUE, differ |-> FALSE]
    ELSE [panicked |-> FALSE, differ |-> got.v # want.v]

\* the result of one Check invocation: the error returned, the notes emitted,
\* whether it panicked instead of returning, and the base checkers reached
Returned(err, notes, calls) ==
    [err |-> err, notes |-> notes, panicked |-> FALSE, panicMsg |-> "", calls |-> calls]

Panicked(msg, notes, calls) ==
    [err |-> NoErr, notes |-> notes, panicked |-> TRUE, panicMsg |-> msg, calls |-> calls]

\* an Equals that compares with no recover in place
equalsCheckNoRecover(c, got, args) ==
    LET cmp == ifaceNotEqual(got, args[1])
        me == << [checker |-> c.name, got |-> got, args |-> args] >>
    IN IF cmp.panicked
       THEN Panicked("runtime error: comparing uncomparable type " \o got.t, << >>, me)
       ELSE IF cmp.differ
       THEN Returned(errorsNew("values are not equal"), << >>, me)
       ELSE Returned(NoErr, << >>, me)

\* equalsChecker.Check: the comparison runs under a deferred recover
equalsCheck(c, got, args) ==
    LET cmp == ifaceNotEqual(got, args[1])
        me == << [checker |-> c.name, got |-> got, args |-> args] >>
    IN IF cmp.panicked
       THEN Returned(errorsNew("runtime error: comparing uncomparable type " \o got.t),
                     << >>, me)
       ELSE IF cmp.differ
       THEN Returned(errorsNew("values are not equal"), << >>, me)
       ELSE Returned(NoErr, << >>, me)

\* CmpEquals() with no option, which DeepEquals is
DeepEquals == [kind |-> "cmpequals", name |-> "deep equals", argNames |-> <<"got", "want">>]

\* a pointer: v is the address it holds and elem the content it points to
Ptr(addr, elem) == [t |-> "*int", v |-> addr, elem |-> elem]
IsPtr(x) == x.t = "*int"
\* what a value holds, through a pointer if it is one
Content(x) == IF IsPtr(x) THEN x.elem ELSE x.v

\* struct types with unexported fields
Unexported == {"struct { answer int }"}

\* cmp.Diff(got, want) with no option: [panicked, differ]; values of
\* different types differ, a struct with an unexported field makes cmp
\* panic, pointers are followed
cmpDiff(got, want) ==
    IF got.t # want.t THEN [panicked |-> FALSE, differ |-> TRUE]
    ELSE IF got.t \in Unexported THEN [panicked |-> TRUE, differ |-> FALSE]
    ELSE [panicked |-> FALSE, differ |-> Content(got) # Content(want)]

\* cmpEqualsChecker.Check: the comparison runs under a deferred recover
cmpEqualsCheck(c, got, args) ==
    LET cmp == cmpDiff(got, args[1])
        me == << [checker |-> c.name, got |-> got, args |-> args] >>
    IN IF cmp.panicked
       THEN Returned(errorsNew("cannot handle unexported field: root.answer\n"
                               \o "consider using AllowUnexported or cmpopts.IgnoreUnexported"),
                     << >>, me)
       ELSE IF cmp.differ
       THEN Returned(errorsNew("values are not deep equal"),
                     << [key |-> "diff (-got +want)",
                         value |-> Unquoted("-" \o Content(got) \o " +" \o Content(args[1]))] >>,
                     me)
       ELSE Returned(NoErr, << >>, me)

\* regexp.MatchString(re, s) for the expressions the tests use: one that
\* does not compile, one that matches every string, and literal texts, each
\* of which matches itself and nothing else
regexpMatchString(re, s) ==
    IF re = "^(()$"
    THEN [err |-> "error parsing regexp: missing closing ): ^(()$", matches |-> FALSE]
    ELSE IF re = "^(.*)$"
    THEN [err |-> "", matches |-> TRUE]
    ELSE [err |-> "", matches |-> re = "^(" \o s \o ")$"]

\* match checks that the given message matches the given pattern
match(got, pattern, msg) ==
    IF pattern.t # "string"
    THEN BadCheckf("regular expression pattern must be a string, got "
                   \o pattern.t \o " instead")
    ELSE LET m == regexpMatchString("^(" \o pattern.v \o ")$", got)
         IN IF m.err # ""
            THEN BadCheckf("cannot compile regular expression "
                           \o quoteString(pattern.v) \o ": " \o m.err)
            ELSE IF m.matches THEN NoErr ELSE errorsNew(msg)

Matches == [kind |-> "matches", name |-> "matches", argNames |-> <<"value", "regexp">>]

\* matchesChecker.Check
matchesCheck(c, got, args) ==
    LET me == << [checker |-> c.name, got |-> got, args |-> args] >>
    IN IF got.t = "string"
       THEN Returned(match(got.v, args[1], "value does not match regexp"), << >>, me)
       ELSE IF got.t \in {"fmt.Stringer", "Comment"}
       THEN Returned(match(got.v, args[1], "value.String() does not match regexp"),
                     << [key |-> "value.String()", value |-> Unquoted(quoteString(got.v))] >>,
                     me)
       ELSE Returned(BadCheckf("did not get a string or a fmt.Stringer, got "
                               \o got.t \o " instead"), << >>, me)

ErrorMatches ==
    [kind |-> "errormatches", name |-> "error matches", argNames |-> <<"error", "regexp">>]

\* errorMatchesChecker.Check: the assertion got.(error) fails on a nil
\* interface, so the err == nil that follows it is never true
errorMatchesCheck(c, got, args) ==
    LET me == << [checker |-> c.name, got |-> got, args |-> args] >>
    IN IF got.t # "error"
       THEN Returned(BadCheckf("did not get an error, got " \o got.t \o " instead"),
                     << >>, me)
       ELSE Returned(match(got.v, args[1], "error does not match regexp"),
                     << [key |-> "error message", value |-> Unquoted(got.v)] >>, me)

PanicMatches ==
    [kind |-> "panicmatches", name |-> "panic matches", argNames |-> <<"panic", "regexp">>]

\* panicMatchesChecker.Check: f.Call(nil) runs under a deferred function that
\* recovers, and only a recovered panic value is matched against args[0]
panicMatchesCheck(c, got, args) ==
    LET me == << [checker |-> c.name, got |-> got, args |-> args] >>
    IN IF got.t # "func"
       THEN Returned(BadCheckf("expected a function, got " \o got.t \o " instead"),
                     << >>, me)
       ELSE IF got.numIn # 0
       THEN Returned(BadCheckf("expected a function accepting no arguments, got "
                               \o got.t \o " instead"), << >>, me)
       ELSE IF ~got.panics
       THEN Returned(errorsNew("function did not panic"), << >>, me)
       ELSE Returned(match(got.v, args[1], "panic value does not match regexp"),
                     << [key |-> "panic value", value |-> Unquoted(got.v)] >>, me)

\* errors.Is(err, target): target is one of the errors of the chain of err
errorsIs(err, target) ==
    \E i \in 1..Len(err.chain) : err.chain[i] = target.chain[1]

\* errors.As(err, target): [panic, found]; it panics unless target is a
\* non-nil pointer to an interface type or to a type implementing error, and
\* finds the first error of the chain assignable to *target
errorsAs(err, target) ==
    IF target.t = "<nil>"
    THEN [panic |-> "errors: target cannot be nil", found |-> FALSE]
    ELSE IF target.t \notin {"*error", "*struct {}"}
    THEN [panic |-> "errors: target must be a non-nil pointer", found |-> FALSE]
    ELSE IF target.t = "*struct {}"
    THEN [panic |-> "errors: *target must be interface or implement error",
          found |-> FALSE]
    ELSE [panic |-> "", found |-> \E i \in 1..Len(err.chain) : err.chain[i] = target.v]

ErrorAs == [kind |-> "erroras", name |-> "ErrorAs", argNames |-> <<"got", "as">>]

\* errorAsChecker.Check: errors.As runs under a deferred recover
errorAsCheck(c, got, args) ==
    LET me == << [checker |-> c.name, got |-> got, args |-> args] >>
    IN IF got.t = "<nil>"
       THEN Returned(errorsNew("got nil error but want non-nil"), << >>, me)
       ELSE IF got.t # "error"
       THEN Returned(BadCheckf("want is not an error"),
                     << [key |-> "got", value |-> got] >>, me)
       ELSE IF errorsAs(got, args[1]).panic # ""
       THEN Returned(BadCheckf(errorsAs(got, args[1]).panic), << >>, me)
       ELSE IF ~errorsAs(got, args[1]).found
       THEN Returned(errorsNew("want error type is not found in got error chain"),
                     << >>, me)
       ELSE Returned(NoErr, << >>, me)

ErrorIs == [kind |-> "erroris", name |-> "ErrorIs", argNames |-> <<"got", "want">>]

\* an ErrorIs that lets a nil got match a nil want
errorIsCheckNilMatchesNil(c, got, args) ==
    LET me == << [checker |-> c.name, got |-> got, args |-> args] >>
    IN IF got.t = "<nil>" /\ args[1].t = "<nil>"
       THEN Returned(NoErr, << >>, me)
       ELSE IF got.t = "<nil>"
       THEN Returned(errorsNew("got nil error but want non-nil"), << >>, me)
       ELSE IF got.t # "error"
       THEN Returned(BadCheckf("want is not an error"),
                     << [key |-> "got", value |-> got] >>, me)
       ELSE IF args[1].t # "error"
       THEN Returned(BadCheckf("want is not an error"),
                     << [key |-> "want", value |-> args[1]] >>, me)
       ELSE IF ~errorsIs(got, args[1])
       THEN Returned(errorsNew("want error is not found in got error chain"), << >>, me)
       ELSE Returned(NoErr, << >>, me)

\* errorIsChecker.Check
errorIsCheck(c, got, args) ==
    LET me == << [checker |-> c.name, got |-> got, args |-> args] >>
    IN IF got.t = "<nil>"
       THEN Returned(errorsNew("got nil error but want non-nil"), << >>, me)
       ELSE IF got.t # "error"
       THEN Returned(BadCheckf("want is not an error"),
                     << [key |-> "got", value |-> got] >>, me)
       ELSE IF args[1].t # "error"
       THEN Returned(BadCheckf("want is not an error"),
                     << [key |-> "want", value |-> args[1]] >>, me)
       ELSE IF ~errorsIs(got, args[1])
       THEN Returned(errorsNew("want error is not found in got error chain"), << >>, me)
       ELSE Returned(NoErr, << >>, me)

\* the error a user-implemented checker ends with
userErr(result) ==
    CASE result = "normal" -> errorsNew("42")
      [] result = "bad" -> BadCheckf("bad check")
      [] result = "silent" -> ErrSilent
      [] OTHER -> NoErr

userCheck(c, got, args) ==
    LET me == << [checker |-> c.name, got |-> got, args |-> args] >>
    IN IF c.result = "panic"
       THEN Panicked("user panic", c.notes, me)
       ELSE Returned(userErr(c.result), c.notes, me)

RECURSIVE CheckerCheck(_, _, _)

\* a negation that negates a wrapped Not checker like any other checker
notCheckNested(c, got, args) ==
    LET r == CheckerCheck(c.checker, got, args)
    IN IF r.panicked THEN r
       ELSE IF IsBadCheck(r.err) THEN r
       ELSE IF r.err # NoErr THEN [r EXCEPT !.err = NoErr]
       ELSE [r EXCEPT !.err = errorsNew("unexpected success")]

\* a negation that takes a BadCheck error for a failure of the check
notCheckBadInverted(c, got, args) ==
    IF c.checker.kind = "not"
    THEN CheckerCheck(c.checker.checker, got, args)
    ELSE LET r == CheckerCheck(c.checker, got, args)
         IN IF r.panicked THEN r
            ELSE IF r.err # NoErr THEN [r EXCEPT !.err = NoErr]
            ELSE [r EXCEPT !.err = errorsNew("unexpected success")]

\* notChecker.Check
notCheck(c, got, args) ==
    IF c.checker.kind = "not"
    THEN CheckerCheck(c.checker.checker, got, args)
    ELSE LET r == CheckerCheck(c.checker, got, args)
         IN IF r.panicked THEN r
            ELSE IF IsBadCheck(r.err) THEN r
            ELSE IF r.err # NoErr THEN [r EXCEPT !.err = NoErr]
            ELSE [r EXCEPT !.err = errorsNew("unexpected success")]

\* checker.Check(got, args, note), dispatched on the dynamic type
CheckerCheck(c, got, args) ==
    CASE c.kind = "equals" -> equalsCheck(c, got, args)
      [] c.kind = "cmpequals" -> cmpEqualsCheck(c, got, args)
      [] c.kind = "user" -> userCheck(c, got, args)
      [] c.kind = "matches" -> matchesCheck(c, got, args)
      [] c.kind = "errormatches" -> errorMatchesCheck(c, got, args)
      [] c.kind = "panicmatches" -> panicMatchesCheck(c, got, args)
      [] c.kind = "erroras" -> errorAsCheck(c, got, args)
      [] c.kind = "erroris" -> errorIsCheck(c, got, args)
      [] c.kind = "not" -> notCheck(c, got, args)

(***************************************************************************)
(* check: the dispatch shared by C.Check and C.Assert.                     *)
(***************************************************************************)
\* the []interface{} holding the supplied args, as a value
ArgsValue(args) ==
    [t |-> "[]interface {}",
     v |-> Join([i \in 1..Len(args) |-> Format(args[i])], ", ")]

\* the Comment is read but left among the args
extractCommentKept(args) ==
    IF Len(args) > 0 /\ IsComment(args[Len(args)])
    THEN [c |-> args[Len(args)], args |-> args]
    ELSE [c |-> NoComment, args |-> args]

\* a trailing Comment is taken off the args
extractComment(args) ==
    IF Len(args) > 0 /\ IsComment(args[Len(args)])
    THEN [c |-> args[Len(args)], args |-> SubSeq(args, 1, Len(args) - 1)]
    ELSE [c |-> NoComment, args |-> args]

\* an off-by-one count that takes got for an argument
wantNumArgsAll(argNames) == Len(argNames)

wantNumArgs(argNames) == Len(argNames) - 1

\* notes that hold the supplied args even when there are none
arityNotesGotAlways(argNames, args) ==
    << [key |-> "got args", value |-> ArgsValue(args)] >>
    \o
    (IF wantNumArgs(argNames) > 0
     THEN << [key |-> "want args",
              value |-> Unquoted(Join(Tail(argNames), ", "))] >> ELSE << >>)

\* the notes of an arity mismatch
arityNotes(argNames, args) ==
    (IF Len(args) > 0
     THEN << [key |-> "got args", value |-> ArgsValue(args)] >> ELSE << >>)
    \o
    (IF wantNumArgs(argNames) > 0
     THEN << [key |-> "want args",
              value |-> Unquoted(Join(Tail(argNames), ", "))] >> ELSE << >>)

\* the BadCheck error of an arity mismatch
arityError(gotNumArgs, want) ==
    BadCheckf((IF gotNumArgs > want
               THEN "too many arguments provided to checker"
               ELSE "not enough arguments provided to checker")
              \o ": got " \o ToString(gotNumArgs) \o ", want " \o ToString(want))

\* what a call of check did: whether it returned or let a panic through, the
\* value returned, the reports handed to fail (each with the error and the
\* report parameters it renders) and the invocations of Check methods
Outcome(status, ret, failed, invoked) ==
    [status |-> status, ret |-> ret, failed |-> failed, invoked |-> invoked]

Failure(err, p) == << [err |-> err, p |-> p, report |-> report(err, p)] >>

\* a missing checker taken for a check that passes
nilCheckerPasses(got, args) == Outcome("returned", TRUE, << >>, << >>)

\* check when no checker was given: the args are reported as they came
nilCheckerFailure(got, args) ==
    Outcome("returned", FALSE,
            Failure(BadCheckf("nil checker provided"),
                    [argNames |-> << >>, got |-> got, args |-> args,
                     comment |-> NoComment, notes |-> << >>]),
            << >>)

check(checker, got, args) ==
    IF checker.kind = "nil"
    THEN nilCheckerFailure(got, args)
    ELSE LET argNames == ArgNames(checker)
             want == wantNumArgs(argNames)
             ex == extractComment(args)
             gotNumArgs == Len(ex.args)
         IN IF gotNumArgs # want
            THEN Outcome("returned", FALSE,
                         Failure(arityError(gotNumArgs, want),
                                 [argNames |-> argNames, got |-> got, args |-> ex.args,
                                  comment |-> ex.c,
                                  notes |-> arityNotes(argNames, ex.args)]),
                         << >>)
            ELSE LET r == CheckerCheck(checker, got, ex.args)
                 IN IF r.panicked
                    THEN Outcome("panicked", FALSE, << >>, r.calls)
                    ELSE IF r.err # NoErr
                    THEN Outcome("returned", FALSE,
                                 Failure(r.err,
                                         [argNames |-> argNames, got |-> got,
                                          args |-> ex.args, comment |-> ex.c,
                                          notes |-> r.notes]),
                                 r.calls)
                    ELSE Outcome("returned", TRUE, << >>, r.calls)

(***************************************************************************)
(* The inputs.                                                             *)
(***************************************************************************)
SeqsUpTo(S, n) == UNION {[1..m -> S] : m \in 0..n}

Values == {Int42, Slice42}
Comments == {Commentf("", ""), Commentf("", "42")}
ArgLists == SeqsUpTo(Values \cup Comments, MaxArgs)

\* notes a user-implemented checker may emit: note keys are any strings
Notes ==
    {[key |-> "", value |-> Int42],
     [key |-> "len", value |-> Unquoted("42")],
     [key |-> "len", value |-> Str("42")]}
NoteLists == SeqsUpTo(Notes, MaxNotes)

AllArgNames == <<"got", "want", "delta", "epsilon">>
ArgNameLists == {SubSeq(AllArgNames, 1, k + 1) : k \in 0..MaxArity}

UserResults == {"ok", "normal", "bad", "silent", "panic"}
UserCheckers ==
    {UserChecker(an, r, ns) : an \in ArgNameLists, r \in UserResults, ns \in NoteLists}

Checkers == {NilChecker, Equals} \cup UserCheckers

(***************************************************************************)
(* The state machine of one C: New, then Check or Assert.                  *)
(***************************************************************************)
\* a goroutine that is not unwinding: no panic and no Goexit is under way
NoUnwind == [kind |-> "none", value |-> ""]

\* a C: its identity (the allocation it came from), the testing object it
\* wraps and its chain of deferred functions
NewC(id, t) == [id |-> id, TB |-> t, deferred |-> << >>]

\* no parent C is made yet
NoSub ==
    [phase |-> "idle", op |-> "none", parent |-> NewC("none", "none"),
     inner |-> NewC("none", "none"), ran |-> FALSE, fEnd |-> NoUnwind,
     unwind |-> NoUnwind, parallel |-> FALSE]
\* the goroutines sharing the C: each loops over calls of its methods,
\* old is the oldDeferred a Defer under way has read and f its function
NoConc ==
    [phase |-> "running",
     go |-> [g \in {"g1", "g2"} |-> [pc |-> "ready", old |-> << >>, f |-> 0, ops |-> 0]],
     passed |-> 0, ran |-> << >>]
\* no comparison is made yet
NoEq == [phase |-> "idle"]
\* no Eventually checker is running
NoEv == [phase |-> "idle"]
\* no entry of a table-driven test is under way
NoTest == [phase |-> "idle"]
\* the variables and the environment before a test patches them: i is an
\* int and s a string, SOME_VAR is set and OTHER_VAR is not; deferred is
\* the chain of restoring closures the C holds, the last added first, and
\* ran the closures called by the Done that has just returned
NoPatch ==
    [last |-> "New",
     dest |-> [d \in {"i", "s"} |-> IF d = "i" THEN "99" ELSE "initial"],
     env |-> [n \in {"SOME_VAR", "OTHER_VAR"} |->
                 IF n = "SOME_VAR" THEN [val |-> "initial", ok |-> TRUE]
                 ELSE [val |-> "", ok |-> FALSE]],
     deferred |-> << >>, ran |-> << >>]
NoCall == [entry |-> "none"]
NoNegation == [n |-> -1]
NoDone ==
    [phase |-> "idle", rest |-> << >>, called |-> << >>, regs |-> << >>,
     log |-> << >>, unwind |-> NoUnwind]

Init ==
    /\ pc = "new"
    /\ tb = [Error |-> << >>, Fatal |-> << >>]
    /\ call = NoCall
    /\ negation = NoNegation
    /\ deferred = << >>
    /\ done = NoDone
    /\ regs = << >>
    /\ registered = << >>
    /\ sub = NoSub
    /\ conc = NoConc
    /\ ev = NoEv
    /\ eq = NoEq
    /\ test = NoTest
    /\ patch = NoPatch

\* tt := &testingT{}; c := qt.New(tt)
New ==
    /\ pc = "returned"
    /\ pc' = "new"
    /\ tb' = [Error |-> << >>, Fatal |-> << >>]
    /\ call' = NoCall
    /\ UNCHANGED <<negation, deferred, done, regs, registered, sub, conc, ev, eq, test, patch>>

\* Check stopping the test as Assert does
CheckFailFatal == "Fatal"

\* the TB method C.Check hands to check
CheckFail == "Error"
\* the TB method C.Assert hands to check
AssertFail == "Fatal"

\* check(fail, checker, got, args) with the fail callback recording on tb
Dispatch(entry, fail, got, checker, args) ==
    LET o == check(checker, got, args)
    IN /\ pc' = "returned"
       /\ call' = [entry |-> entry, checker |-> checker, got |-> got,
                   args |-> args, out |-> o]
       /\ tb' = [tb EXCEPT ![fail] = @ \o [i \in 1..Len(o.failed) |-> o.failed[i].report]]
       /\ UNCHANGED <<negation, deferred, done, regs, registered, sub, conc, ev, eq, test, patch>>

\* c.Check(got, checker, args...)
CCheck ==
    /\ pc = "new"
    /\ \E got \in Values, checker \in Checkers, args \in ArgLists :
           Dispatch("Check", CheckFail, got, checker, args)

\* c.Assert(got, checker, args...)
CAssert ==
    /\ pc = "new"
    /\ \E got \in Values, checker \in Checkers, args \in ArgLists :
           Dispatch("Assert", AssertFail, got, checker, args)

NextCheck == New \/ CCheck \/ CAssert

SpecCheck == Init /\ [][NextCheck]_vars

(***************************************************************************)
(* Running Not checkers: Not applied n times to a checker C, run on one    *)
(* input beside C and Not(C).                                              *)
(***************************************************************************)
RECURSIVE NotN(_, _)
NotN(checker, n) == IF n = 0 THEN checker ELSE Not(NotN(checker, n - 1))

BaseCheckers == {Equals} \cup UserCheckers

\* what a Check invocation did, as its caller sees it
Seen(r) == [err |-> r.err, panicked |-> r.panicked]

Negate ==
    /\ negation = NoNegation
    /\ \E base \in BaseCheckers, n \in 0..MaxNot, got \in Values :
         \E args \in [1..(Len(base.argNames) - 1) -> Values \cup Comments] :
           negation' = [n |-> n, base |-> base, got |-> got, args |-> args,
                        argNames |-> ArgNames(NotN(base, n)),
                        res |-> Seen(CheckerCheck(NotN(base, n), got, args)),
                        plain |-> Seen(CheckerCheck(base, got, args)),
                        once |-> Seen(CheckerCheck(Not(base), got, args))]
    /\ UNCHANGED <<pc, tb, call, deferred, done, regs, registered, sub, conc, ev, eq, test, patch>>

\* the next table entry of the checker tests
NegateNext ==
    /\ negation # NoNegation
    /\ negation' = NoNegation
    /\ UNCHANGED <<pc, tb, call, deferred, done, regs, registered, sub, conc, ev, eq, test, patch>>

NextNot == Negate \/ NegateNext

SpecNot == Init /\ [][NextNot]_vars

(***************************************************************************)
(* The entries of checkerTests for the pattern and the error checkers:     *)
(* each entry is run with its checker and with Not of its checker.         *)
(***************************************************************************)
\* what the entries hand over as got and as args[0]: a nil interface,
\* strings (patterns among them), an int, a fmt.Stringer, errors with the
\* errors they wrap, functions that panic or return, and pointers for
\* errors.As to assign (to a variable of the type of an error, to a struct)
TableValues ==
    {[t |-> "<nil>", v |-> "nil"],
     Str("bad wolf"), Str("bad"), Str(".*"), Str("("), Int42,
     [t |-> "fmt.Stringer", v |-> "bad wolf"],
     [t |-> "error", v |-> "bad wolf", chain |-> <<"bad wolf">>],
     [t |-> "error", v |-> "wrapped: bad wolf", chain |-> <<"wrapped", "bad wolf">>],
     [t |-> "error", v |-> "other error", chain |-> <<"other error">>],
     [t |-> "func", v |-> "bad wolf", numIn |-> 0, panics |-> TRUE],
     [t |-> "func", v |-> "", numIn |-> 0, panics |-> FALSE],
     [t |-> "func", v |-> "bad wolf", numIn |-> 1, panics |-> TRUE],
     [t |-> "*error", v |-> "bad wolf"],
     [t |-> "*error", v |-> "other error"],
     [t |-> "*struct {}", v |-> "{}"]}

TableCheckers == {Matches, ErrorMatches, PanicMatches, ErrorAs, ErrorIs}

\* an entry of checkerTests is run: checker.Check and qt.Not(checker).Check
TableCheck ==
    /\ test.phase = "idle"
    /\ \E checker \in TableCheckers, got \in TableValues, arg \in TableValues :
           test' = [phase |-> "checked", checker |-> checker, got |-> got,
                     args |-> <<arg>>,
                     res |-> Seen(CheckerCheck(checker, got, <<arg>>)),
                     negated |-> Seen(CheckerCheck(Not(checker), got, <<arg>>))]
    /\ UNCHANGED <<pc, tb, call, negation, deferred, done, regs, registered, sub, conc, ev, eq, patch>>

\* the next entry of the table
TableNext ==
    /\ test.phase # "idle"
    /\ test' = NoTest
    /\ UNCHANGED <<pc, tb, call, negation, deferred, done, regs, registered, sub, conc, ev, eq, patch>>

NextTable == TableCheck \/ TableNext

SpecTable == Init /\ [][NextTable]_vars

(***************************************************************************)
(* The entries of formatTests: Format is called on a value.                *)
(***************************************************************************)
\* the values formatted: errors and Stringers held by value, through a
\* pointer or through a nil pointer, whose Error or String method returns
\* or panics; errors printing more with %+v; strings and other values
FormatValues ==
    {[t |-> ty, v |-> c, recv |-> r, panics |-> p] :
        ty \in {"error", "fmt.Stringer"},
        c \in {"", "42", "bad wolf", "I am a stringer", "cannot open", "bad wolf error",
               "these are the voyages", "nil error", "nil stringer"},
        r \in {"value", "pointer", "nil pointer"}, p \in BOOLEAN}
    \cup {[t |-> "error", v |-> "bad wolf", detail |-> "bad wolf\n  file:line"]}
    \cup {Str("these are the voyages"), Int42, Slice42}
    \cup Comments

\* got := qt.Format(test.value)
FormatEntry ==
    /\ test.phase = "idle"
    /\ \E value \in FormatValues :
           test' = [phase |-> "formatted", value |-> value, got |-> FormatCall(value)]
    /\ UNCHANGED <<pc, tb, call, negation, deferred, done, regs, registered, sub, conc, ev, eq, patch>>

NextFormat == FormatEntry \/ TableNext

SpecFormat == Init /\ [][NextFormat]_vars

(***************************************************************************)
(* The source excerpt of a report: writeInvocation run on a caller frame   *)
(* and on the file the frame names.                                        *)
(***************************************************************************)
\* what runtime.Caller may return and what the file may be: no frame; a
\* file that cannot be opened; a file of last lines whose line badLine (if
\* not 0) is more than the scanner reads, with the call at any line, past
\* the end of the file included
Callers ==
    {[ok |-> o, line |-> l,
      file |-> [name |-> "report_test.go", opens |-> TRUE, last |-> n, badLine |-> b]] :
        o \in {TRUE}, l \in 1..(MaxLines + contextLines + 1), n \in 0..MaxLines,
        b \in 0..MaxLines}
    \cup {[ok |-> o, line |-> l,
           file |-> [name |-> "report_test.go", opens |-> FALSE, last |-> 0, badLine |-> 0]] :
             o \in BOOLEAN, l \in {1, MaxLines}}

\* a failure is reported from the given call site
InvocationEntry ==
    /\ test.phase = "idle"
    /\ \E caller \in Callers :
           /\ caller.file.badLine <= caller.file.last
           /\ test' = [phase |-> "reported", caller |-> caller,
                       out |-> writeInvocation(caller)]
    /\ UNCHANGED <<pc, tb, call, negation, deferred, done, regs, registered, sub, conc, ev, eq, patch>>

NextInvocation == InvocationEntry \/ TableNext

SpecInvocation == Init /\ [][NextInvocation]_vars

(***************************************************************************)
(* Patch, Setenv and Unsetenv: each changes a variable or the environment  *)
(* and hands Defer a closure that puts the old state back.                 *)
(***************************************************************************)
\* c.Patch(dest, value) with an assignable value: a nil value stands for
\* the zero value of the type of the destination
CPatch(dest, value) ==
    /\ Len(patch.deferred) < MaxDeferred
    /\ patch' = [patch EXCEPT
                    !.last = "Patch", !.ran = << >>,
                    !.dest[dest] = IF value # "nil" THEN value
                                   ELSE IF dest = "i" THEN "0" ELSE "",
                    !.deferred = << [op |-> "set", name |-> dest,
                                     old |-> patch.dest[dest]] >> \o @]
    /\ UNCHANGED <<pc, tb, call, negation, deferred, done, regs, registered, sub, conc, ev, eq, test>>

\* c.setenv(name, val, valOK)
setenv(name, val, valOK) ==
    /\ Len(patch.deferred) < MaxDeferred
    /\ patch' = [patch EXCEPT
                    !.last = IF valOK THEN "Setenv" ELSE "Unsetenv", !.ran = << >>,
                    !.env[name] = [val |-> val, ok |-> valOK],
                    !.deferred = << [op |-> "env", name |-> name,
                                     old |-> patch.env[name]] >> \o @]
    /\ UNCHANGED <<pc, tb, call, negation, deferred, done, regs, registered, sub, conc, ev, eq, test>>

\* c.Setenv(name, val)
CSetenv(name, val) == setenv(name, val, TRUE)

\* c.Unsetenv(name)
CUnsetenv(name) == setenv(name, "", FALSE)

RECURSIVE Restored(_, _)
\* the variables and the environment p once the closures of the chain have
\* run, each after the ones registered after it
Restored(p, chain) ==
    IF chain = << >> THEN p
    ELSE LET f == Head(chain)
         IN Restored(IF f.op = "set"
                     THEN [p EXCEPT !.dest[f.name] = f.old]
                     ELSE [p EXCEPT !.env[f.name] = f.old],
                     Tail(chain))

\* a Done that calls the closures in the order of their registration
PatchDoneOldestFirst ==
    /\ patch' = [Restored(patch, [i \in 1..Len(patch.deferred) |->
                                     patch.deferred[Len(patch.deferred) + 1 - i]])
                 EXCEPT !.last = "Done", !.deferred = << >>, !.ran = patch.deferred]
    /\ UNCHANGED <<pc, tb, call, negation, deferred, done, regs, registered, sub, conc, ev, eq, test>>

\* c.Done(): the chain runs and is reset
PatchDone ==
    /\ patch' = [Restored(patch, patch.deferred)
                 EXCEPT !.last = "Done", !.deferred = << >>, !.ran = patch.deferred]
    /\ UNCHANGED <<pc, tb, call, negation, deferred, done, regs, registered, sub, conc, ev, eq, test>>

NextPatch ==
    \/ \E dest \in {"i", "s"}, value \in {"88", "nil"} : CPatch(dest, value)
    \/ \E name \in {"SOME_VAR", "OTHER_VAR"}, val \in {"new value", ""} : CSetenv(name, val)
    \/ \E name \in {"SOME_VAR", "OTHER_VAR"} : CUnsetenv(name)
    \/ PatchDone

SpecPatch == Init /\ [][NextPatch]_vars

(***************************************************************************)
(* Defer and Done. c.deferred is a chain of closures, each calling the     *)
(* function it registered and then, through defer, the chain before it.    *)
(***************************************************************************)
Funcs == {"f", "g", "h"}
\* functions that panic, each with its own name as the panic value
Panics == {"scream and shout", "run in circles"}
\* a function that calls runtime.Goexit
Goexits == {"goexit"}
AllFuncs == Funcs \cup Panics \cup Goexits

\* how a call of the function ends: by returning, by a panic or by Goexit
FuncEnd(f) ==
    IF f \in Panics THEN [kind |-> "panic", value |-> f]
    ELSE IF f \in Goexits THEN [kind |-> "goexit", value |-> ""]
    ELSE NoUnwind

\* the unwinding of a goroutine unwinding as u once a deferred call made on
\* the way has ended as e: a new panic or Goexit takes the place of the
\* one under way
Unwind(u, e) == IF e = NoUnwind THEN u ELSE e

\* a registration order that calls the older functions first
DeferAppended(f) ==
    /\ done.phase # "running"
    /\ Len(done.log) + Len(deferred) < MaxDeferred
    /\ deferred' = Append(deferred, f)
    /\ regs' = Append(regs, f)
    /\ registered' = Append(registered, f)
    /\ UNCHANGED <<pc, tb, call, negation, done, sub, conc, ev, eq, test, patch>>

\* c.Defer(f)
Defer(f) ==
    /\ done.phase # "running"
    /\ Len(done.log) + Len(deferred) < MaxDeferred
    /\ deferred' = <<f>> \o deferred
    /\ regs' = Append(regs, f)
    /\ registered' = Append(registered, f)
    /\ UNCHANGED <<pc, tb, call, negation, done, sub, conc, ev, eq, test, patch>>

\* c.AddCleanup(f)
AddCleanup(f) == Defer(f)

\* c.Done() is entered and calls c.deferred
Done ==
    /\ done.phase # "running"
    /\ done' = [phase |-> "running", rest |-> deferred, called |-> << >>,
                regs |-> regs, log |-> done.log, unwind |-> NoUnwind]
    /\ UNCHANGED <<pc, tb, call, negation, deferred, regs, registered, sub, conc, ev, eq, test, patch>>

\* c.Cleanup()
Cleanup == Done

\* a closure that calls the chain before it after its function, not by defer
DoneCallNoDefer ==
    /\ done.phase = "running"
    /\ done.rest # << >>
    /\ done' = [done EXCEPT !.rest = IF FuncEnd(Head(done.rest)) = NoUnwind
                                     THEN Tail(@) ELSE << >>,
                            !.called = Append(@, Head(done.rest)),
                            !.log = Append(@, Head(done.rest)),
                            !.unwind = Unwind(@, FuncEnd(Head(done.rest)))]
    /\ UNCHANGED <<pc, tb, call, negation, deferred, regs, registered, sub, conc, ev, eq, test, patch>>

\* the closure at the head of the chain calls its function; the rest of the
\* chain is what its defer runs next, however the function ended
DoneCall ==
    /\ done.phase = "running"
    /\ done.rest # << >>
    /\ done' = [done EXCEPT !.rest = Tail(@),
                            !.called = Append(@, Head(done.rest)),
                            !.log = Append(@, Head(done.rest)),
                            !.unwind = Unwind(@, FuncEnd(Head(done.rest)))]
    /\ UNCHANGED <<pc, tb, call, negation, deferred, regs, registered, sub, conc, ev, eq, test, patch>>

\* functions that are registered only from within a deferred function
LateFuncs == {"defer 2"}

\* a Done that goes on to call what is registered while it runs
DoneCallDeferRuns(f) ==
    /\ done.phase = "running"
    /\ done.rest # << >>
    /\ Head(done.rest) \in Funcs
    /\ Len(done.log) + Len(deferred) < MaxDeferred
    /\ done' = [done EXCEPT !.rest = Append(Tail(@), f),
                            !.called = Append(@, Head(done.rest)),
                            !.log = Append(@, Head(done.rest))]
    /\ deferred' = <<f>> \o deferred
    /\ regs' = Append(regs, f)
    /\ registered' = Append(registered, f)
    /\ UNCHANGED <<pc, tb, call, negation, sub, conc, ev, eq, test, patch>>

\* the closure at the head of the chain calls its function, which calls
\* c.Defer(f) and returns: c.deferred becomes a closure over f and over the
\* chain c.deferred held, while the chain under way goes on as it was
DoneCallDefer(f) ==
    /\ done.phase = "running"
    /\ done.rest # << >>
    /\ Head(done.rest) \in Funcs
    /\ Len(done.log) + Len(deferred) < MaxDeferred
    /\ done' = [done EXCEPT !.rest = Tail(@),
                            !.called = Append(@, Head(done.rest)),
                            !.log = Append(@, Head(done.rest))]
    /\ deferred' = <<f>> \o deferred
    /\ regs' = Append(regs, f)
    /\ registered' = Append(registered, f)
    /\ UNCHANGED <<pc, tb, call, negation, sub, conc, ev, eq, test, patch>>

\* a Done that calls the chain and leaves c.deferred as it is
DoneReturnKept ==
    /\ done.phase = "running"
    /\ done.rest = << >>
    /\ done' = [done EXCEPT !.phase = "finished"]
    /\ regs' = << >>
    /\ UNCHANGED <<pc, tb, call, negation, deferred, registered, sub, conc, ev, eq, test, patch>>

\* the chain has run: Done's own defer resets c.deferred and Done returns,
\* or goes on unwinding with the panic or Goexit of the chain
DoneReturn ==
    /\ done.phase = "running"
    /\ done.rest = << >>
    /\ done' = [done EXCEPT !.phase = "finished"]
    /\ deferred' = << >>
    /\ regs' = << >>
    /\ UNCHANGED <<pc, tb, call, negation, registered, sub, conc, ev, eq, test, patch>>

NextDefer ==
    \/ \E f \in AllFuncs : Defer(f)
    \/ \E f \in AllFuncs : AddCleanup(f)
    \/ Done
    \/ Cleanup
    \/ DoneCall
    \/ \E f \in LateFuncs : DoneCallDefer(f)
    \/ DoneReturn

SpecDefer == Init /\ [][NextDefer]_vars

(***************************************************************************)
(* Equals and DeepEquals run on the same two values.                       *)
(***************************************************************************)
\* addresses of the allocations pointers come from
Addrs == {"0xc000012340", "0xc000012348"}
\* what the values hold
Contents == {"42", "47"}

\* values of comparable and uncomparable types, structs with an unexported
\* field, and pointers
EqValues ==
    {[t |-> ty, v |-> c] :
        ty \in {"int", "string", "[]int", "struct { answer int }"}, c \in Contents}
    \cup {Ptr(a, c) : a \in Addrs, c \in Contents}

\* an entry of checkerTests run with Equals and with DeepEquals
EqCompare ==
    /\ eq.phase = "idle"
    /\ \E got \in EqValues, want \in EqValues :
           eq' = [phase |-> "compared", got |-> got, want |-> want,
                  equals |-> Seen(CheckerCheck(Equals, got, <<want>>)),
                  deep |-> Seen(CheckerCheck(DeepEquals, got, <<want>>))]
    /\ UNCHANGED <<pc, tb, call, negation, deferred, done, regs, registered, sub, conc, ev, test, patch>>

\* the next entry of checkerTests
EqNext ==
    /\ eq.phase = "compared"
    /\ eq' = NoEq
    /\ UNCHANGED <<pc, tb, call, negation, deferred, done, regs, registered, sub, conc, ev, test, patch>>

NextEquals == EqCompare \/ EqNext

SpecEquals == Init /\ [][NextEquals]_vars

(***************************************************************************)
(* The Eventually checker: the subject got is polled with the wrapped      *)
(* checker under a retry strategy, then under the stable strategy if one   *)
(* is set. How many attempts the time allows is not decided by the         *)
(* checker: any number from one to MaxAttempts may happen.                 *)
(***************************************************************************)
\* what Eventually may be given as got: a value that is no function, or a
\* function with numIn parameters and numOut results
Subjects ==
    {[kind |-> "value", numIn |-> 0, numOut |-> 0]}
    \cup {[kind |-> "func", numIn |-> i, numOut |-> o] : i \in 0..1, o \in 0..2}

\* the strategy the tests poll with
RetryStrategy == [MaxDuration |-> "100ms"]
\* a nil *retry.Strategy
NoStrategy == [MaxDuration |-> "nil"]
\* the stable strategy of EventuallyStable
StableStrategy == [MaxDuration |-> "150ms"]

\* a validation that takes any function for a subject
subjectErrorFuncOnly(got) ==
    IF got.kind # "func"
    THEN BadCheckf("first argument is not a function")
    ELSE NoErr

\* the validation of got that precedes the polling
subjectError(got) ==
    IF got.kind # "func"
    THEN BadCheckf("first argument is not a function")
    ELSE IF got.numIn # 0
    THEN BadCheckf("cannot use a function receiving arguments")
    ELSE IF got.numOut # 1
    THEN BadCheckf("cannot use a function returning more than one value")
    ELSE NoErr

\* fmt.Errorf("tried for %v, %s", e.retryStrategy.MaxDuration, err.Error())
triedFor(strategy, err) ==
    errorsNew("tried for " \o strategy.MaxDuration \o ", " \o err.msg)

\* fmt.Errorf("less than %v after an initial success, %s", ...)
lessThan(strategy, err) ==
    errorsNew("less than " \o strategy.MaxDuration \o " after an initial success, "
              \o err.msg)

\* the checkers Eventually wraps: Equals, Matches (whose note and whose
\* error depend on the value polled) and checkers ending in each way, with
\* and without a note
EvCheckers ==
    {Equals, Matches}
    \cup {UserChecker(<<"got">>, r, ns) :
             r \in {"ok", "normal", "bad", "silent"},
             ns \in {<< >>, << [key |-> "len", value |-> Unquoted("42")] >>}}

\* what the subject may return at a call, and what args may hold
EvValues == Values \cup {[t |-> "fmt.Stringer", v |-> c] : c \in {"bad wolf", "bad"}}
EvArgs == Values \cup {Str("bad wolf"), Str("(")}

\* Check returns err: the deferred function forwards to notef the notes of
\* the last call of the wrapped checker and then a note of got, which is
\* the value the subject returned last if it was called
EvReturn(run, err) ==
    [run EXCEPT !.phase = "ended", !.result = err,
                !.forwarded = Append(run.notes, [key |-> "got", value |-> run.cur])]

\* Eventually(checker).WithStrategy(...).WithStableStrategy(stable).Check(got,
\* args, notef), up to the polling loop
EvCheck ==
    /\ ev.phase = "idle"
    /\ \E got \in Subjects, checker \in EvCheckers, stable \in {NoStrategy, StableStrategy} :
         \E args \in [1..(Len(checker.argNames) - 1) -> EvArgs] :
           LET run == [phase |-> "polling", got |-> got, checker |-> checker,
                       args |-> args, retryStrategy |-> RetryStrategy,
                       stableRetryStrategy |-> stable, polls |-> << >>,
                       stables |-> << >>, calls |-> << >>, result |-> NoErr,
                       notes |-> << >>, cur |-> got, forwarded |-> << >>]
           IN IF subjectError(got) # NoErr
              THEN ev' = EvReturn(run, subjectError(got))
              ELSE ev' = run
    /\ UNCHANGED <<pc, tb, call, negation, deferred, done, regs, registered, sub, conc, eq, test, patch>>

\* one attempt: f.Call(nil) returns v and the wrapped checker runs on it
Attempt(v) ==
    [got |-> v, err |-> CheckerCheck(ev.checker, v, ev.args).err,
     notes |-> CheckerCheck(ev.checker, v, ev.args).notes]

\* a polling loop that goes on after a success
EvPollNoBreak(v) ==
    /\ ev.phase = "polling"
    /\ Len(ev.polls) < MaxAttempts
    /\ ev' = [ev EXCEPT !.polls = Append(@, Attempt(v)),
                        !.notes = Attempt(v).notes, !.cur = v,
                        !.calls = @ \o <<"subject", "checker">>]
    /\ UNCHANGED <<pc, tb, call, negation, deferred, done, regs, registered, sub, conc, eq, test, patch>>

\* a polling loop whose notes go on from one attempt to the next
EvPollNotesKept(v) ==
    /\ ev.phase = "polling"
    /\ Len(ev.polls) < MaxAttempts
    /\ LET a == Attempt(v)
           polled == [ev EXCEPT !.polls = Append(@, a),
                                !.notes = @ \o a.notes, !.cur = v,
                                !.calls = @ \o <<"subject", "checker">>]
       IN IF a.err # NoErr
          THEN ev' = polled
          ELSE IF ev.stableRetryStrategy # NoStrategy
          THEN ev' = [polled EXCEPT !.phase = "stable"]
          ELSE ev' = EvReturn(polled, NoErr)
    /\ UNCHANGED <<pc, tb, call, negation, deferred, done, regs, registered, sub, conc, eq, test, patch>>

\* an iteration of the polling loop, which a success ends
EvPoll(v) ==
    /\ ev.phase = "polling"
    /\ Len(ev.polls) < MaxAttempts
    /\ LET a == Attempt(v)
           polled == [ev EXCEPT !.polls = Append(@, a),
                                !.notes = a.notes, !.cur = v,
                                !.calls = @ \o <<"subject", "checker">>]
       IN IF a.err # NoErr
          THEN ev' = polled
          ELSE IF ev.stableRetryStrategy # NoStrategy
          THEN ev' = [polled EXCEPT !.phase = "stable"]
          ELSE ev' = EvReturn(polled, NoErr)
    /\ UNCHANGED <<pc, tb, call, negation, deferred, done, regs, registered, sub, conc, eq, test, patch>>

\* a retry strategy whose time is never up
EvTimeoutNever ==
    /\ ev.phase = "polling"
    /\ Len(ev.polls) > MaxAttempts
    /\ ev' = EvReturn(ev, triedFor(ev.retryStrategy, ev.polls[Len(ev.polls)].err))
    /\ UNCHANGED <<pc, tb, call, negation, deferred, done, regs, registered, sub, conc, eq, test, patch>>

\* the retry strategy has no next attempt and the last one failed
EvTimeout ==
    /\ ev.phase = "polling"
    /\ ev.polls # << >>
    /\ ev.polls[Len(ev.polls)].err # NoErr
    /\ ev' = EvReturn(ev, triedFor(ev.retryStrategy, ev.polls[Len(ev.polls)].err))
    /\ UNCHANGED <<pc, tb, call, negation, deferred, done, regs, registered, sub, conc, eq, test, patch>>

\* a stability loop that goes on after a failure
EvStablePollLenient(v) ==
    /\ ev.phase = "stable"
    /\ Len(ev.stables) < MaxAttempts
    /\ ev' = [ev EXCEPT !.stables = Append(@, Attempt(v)),
                        !.notes = Attempt(v).notes, !.cur = v,
                        !.calls = @ \o <<"subject", "checker">>]
    /\ UNCHANGED <<pc, tb, call, negation, deferred, done, regs, registered, sub, conc, eq, test, patch>>

\* an iteration of the stability loop, which a failure ends
EvStablePoll(v) ==
    /\ ev.phase = "stable"
    /\ Len(ev.stables) < MaxAttempts
    /\ LET a == Attempt(v)
           polled == [ev EXCEPT !.stables = Append(@, a),
                                !.notes = a.notes, !.cur = v,
                                !.calls = @ \o <<"subject", "checker">>]
       IN IF a.err # NoErr
          THEN ev' = EvReturn(polled, lessThan(ev.stableRetryStrategy, a.err))
          ELSE ev' = polled
    /\ UNCHANGED <<pc, tb, call, negation, deferred, done, regs, registered, sub, conc, eq, test, patch>>

\* the stable strategy has no next attempt: return nil
EvStableEnd ==
    /\ ev.phase = "stable"
    /\ ev.stables # << >>
    /\ ev' = EvReturn(ev, NoErr)
    /\ UNCHANGED <<pc, tb, call, negation, deferred, done, regs, registered, sub, conc, eq, test, patch>>

\* the next entry of eventuallyTests
EvNext ==
    /\ ev.phase = "ended"
    /\ ev' = NoEv
    /\ UNCHANGED <<pc, tb, call, negation, deferred, done, regs, registered, sub, conc, eq, test, patch>>

NextEventually ==
    \/ EvCheck
    \/ \E v \in EvValues : EvPoll(v)
    \/ EvTimeout
    \/ \E v \in EvValues : EvStablePoll(v)
    \/ EvStableEnd
    \/ EvNext

SpecEventually == Init /\ [][NextEventually]_vars

\* Check is sequential code: as long as the calls of the subject and of the
\* wrapped checker return, the step of the loop that comes next is taken
SpecEventuallyFair == SpecEventually /\ WF_vars(NextEventually)

(***************************************************************************)
(* Run and Parallel. The parent C wraps a testing object of some concrete  *)
(* type; during a subtest the variables deferred, done, regs and           *)
(* registered are those of the C handed to the subtest function.           *)
(***************************************************************************)
\* concrete types of testing objects: the testingT of the tests, which has
\* Run(string, func(*testing.T)) bool and Parallel(), and *testing.B, which
\* has Run(string, func(*testing.B)) bool and no Parallel
TBTypes == {"*quicktest_test.testingT", "*testing.B"}

\* *testing.B passing for a testing object that can run subtests
HasRunAny(t) == t \in TBTypes

\* c.TB.(interface{ Run(string, func(*testing.T)) bool })
HasRun(t) == t = "*quicktest_test.testingT"

\* c.TB.(interface{ Parallel() })
HasParallel(t) == t = "*quicktest_test.testingT"

\* functions registered on the parent C
ParentFuncs == {"outer"}

\* how the subtest function ends
SubEnds == {NoUnwind, [kind |-> "panic", value |-> "subtest panic"],
            [kind |-> "goexit", value |-> ""]}

\* c := qt.New(t) for a testing object of concrete type t
SubNew(t) ==
    /\ sub.phase \in {"idle", "returned", "unwound"}
    /\ sub' = [NoSub EXCEPT !.phase = "made", !.parent = NewC("c", t)]
    /\ deferred' = << >>
    /\ done' = NoDone
    /\ regs' = << >>
    /\ registered' = << >>
    /\ UNCHANGED <<pc, tb, call, negation, conc, ev, eq, test, patch>>

\* c.Defer(f) on the parent C
ParentDefer(f) ==
    /\ sub.phase = "made"
    /\ \A i \in 1..Len(sub.parent.deferred) : sub.parent.deferred[i] # f
    /\ sub' = [sub EXCEPT !.parent.deferred = <<f>> \o @]
    /\ UNCHANGED <<pc, tb, call, negation, deferred, done, regs, registered, conc, ev, eq, test, patch>>

\* a Run that hands the parent C to the subtest function
RunInnerParent(c, t) == c

\* c := New(t) inside the function Run hands to the testing object
RunInner(c, t) == NewC("c.Run", t)

\* c.Run(name, f), up to the call of f: a panic when the testing object
\* has no Run method of the wanted type, else the testing object's Run
\* makes the subtest's testing object and calls the function with it
CRun ==
    /\ sub.phase = "made"
    /\ IF ~HasRun(sub.parent.TB)
       THEN /\ sub' = [sub EXCEPT
                         !.phase = "unwound", !.op = "Run",
                         !.unwind = [kind |-> "panic",
                                     value |-> "cannot execute Run with underlying concrete type "
                                               \o sub.parent.TB]]
            /\ UNCHANGED deferred
       ELSE LET c2 == RunInner(sub.parent, "subTestT")
            IN /\ sub' = [sub EXCEPT !.phase = "subtest", !.op = "Run",
                                     !.inner = [c2 EXCEPT !.deferred = << >>],
                                     !.ran = TRUE]
               /\ deferred' = c2.deferred
    /\ UNCHANGED <<pc, tb, call, negation, done, regs, registered, conc, ev, eq, test, patch>>

\* c.Defer(f) called by the subtest function on the C it was given
SubDefer(f) ==
    /\ sub.phase = "subtest"
    /\ Defer(f)

\* the subtest function ends: by returning, by a panic or by Goexit
SubEnd(how) ==
    /\ sub.phase = "subtest"
    /\ sub' = [sub EXCEPT !.phase = "ending", !.fEnd = how]
    /\ UNCHANGED <<pc, tb, call, negation, deferred, done, regs, registered, conc, ev, eq, test, patch>>

\* the defer c.Done() of Run is entered
SubDone ==
    /\ sub.phase = "ending"
    /\ done.phase = "idle"
    /\ Done

\* the inner Done has ended and Run returns or goes on unwinding
RunReturn ==
    /\ sub.phase = "ending"
    /\ done.phase = "finished"
    /\ LET u == Unwind(sub.fEnd, done.unwind)
       IN sub' = [sub EXCEPT !.phase = IF u = NoUnwind THEN "returned" ELSE "unwound",
                             !.unwind = u]
    /\ UNCHANGED <<pc, tb, call, negation, deferred, done, regs, registered, conc, ev, eq, test, patch>>

\* c.Parallel()
CParallel ==
    /\ sub.phase = "made"
    /\ IF ~HasParallel(sub.parent.TB)
       THEN sub' = [sub EXCEPT
                      !.phase = "unwound", !.op = "Parallel",
                      !.unwind = [kind |-> "panic",
                                  value |-> "cannot execute Parallel with underlying concrete type "
                                            \o sub.parent.TB]]
       ELSE sub' = [sub EXCEPT !.phase = "returned", !.op = "Parallel",
                               !.parallel = TRUE]
    /\ UNCHANGED <<pc, tb, call, negation, deferred, done, regs, registered, conc, ev, eq, test, patch>>

NextRun ==
    \/ \E t \in TBTypes : SubNew(t)
    \/ \E f \in ParentFuncs : ParentDefer(f)
    \/ CRun
    \/ \E f \in Funcs : SubDefer(f)
    \/ \E how \in SubEnds : SubEnd(how)
    \/ SubDone
    \/ sub.phase = "ending" /\ DoneCall
    \/ sub.phase = "ending" /\ DoneReturn
    \/ RunReturn
    \/ CParallel

SpecRun == Init /\ [][NextRun]_vars

(***************************************************************************)
(* Goroutines calling the methods of one C. c.deferred is read and written *)
(* with no lock held, so the reads and writes of the calls interleave.     *)
(***************************************************************************)
Goroutines == DOMAIN NoConc.go

\* the goroutine is between two calls and has calls left to make
Ready(g) ==
    /\ conc.phase = "running"
    /\ conc.go[g].pc = "ready"
    /\ conc.go[g].ops < MaxOps

\* c.Defer(f), up to oldDeferred := c.deferred; f is a function not yet
\* passed to Defer, named by its number
GoDeferRead(g) ==
    /\ Ready(g)
    /\ conc' = [conc EXCEPT !.go[g] = [pc |-> "defer", old |-> deferred,
                                       f |-> conc.passed + 1, ops |-> @.ops + 1],
                            !.passed = @ + 1]
    /\ UNCHANGED <<pc, tb, call, negation, deferred, done, regs, registered, sub, ev, eq, test, patch>>

\* c.Defer(f), the assignment c.deferred = func() { defer oldDeferred(); f() }
GoDeferWrite(g) ==
    /\ conc.go[g].pc = "defer"
    /\ deferred' = <<conc.go[g].f>> \o conc.go[g].old
    /\ conc' = [conc EXCEPT !.go[g].pc = "ready", !.go[g].old = << >>, !.go[g].f = 0]
    /\ UNCHANGED <<pc, tb, call, negation, done, regs, registered, sub, ev, eq, test, patch>>

\* c.Done(), the call c.deferred(): the chain read from c.deferred runs
GoDoneCall(g) ==
    /\ Ready(g)
    /\ conc' = [conc EXCEPT !.go[g].pc = "done", !.go[g].ops = @ + 1,
                            !.ran = @ \o deferred]
    /\ UNCHANGED <<pc, tb, call, negation, deferred, done, regs, registered, sub, ev, eq, test, patch>>

\* c.Done(), the deferred c.deferred = func() {}
GoDoneReset(g) ==
    /\ conc.go[g].pc = "done"
    /\ deferred' = << >>
    /\ conc' = [conc EXCEPT !.go[g].pc = "ready"]
    /\ UNCHANGED <<pc, tb, call, negation, done, regs, registered, sub, ev, eq, test, patch>>

\* c.Check(true, Equals, false) and c.Run("", func(c *C) {}): neither reads
\* nor writes c.deferred
GoCheckOrRun(g) ==
    /\ Ready(g)
    /\ conc' = [conc EXCEPT !.go[g].ops = @ + 1]
    /\ UNCHANGED <<pc, tb, call, negation, deferred, done, regs, registered, sub, ev, eq, test, patch>>

\* the goroutine's loop ends
GoExit(g) ==
    /\ conc.phase = "running"
    /\ conc.go[g].pc = "ready"
    /\ conc' = [conc EXCEPT !.go[g].pc = "exited"]
    /\ UNCHANGED <<pc, tb, call, negation, deferred, done, regs, registered, sub, ev, eq, test, patch>>

\* wg.Wait() has returned and the subtest function returns: the Done
\* deferred by Run calls the chain and resets it
FinalDone ==
    /\ conc.phase = "running"
    /\ \A g \in Goroutines : conc.go[g].pc = "exited"
    /\ conc' = [conc EXCEPT !.phase = "final", !.ran = @ \o deferred]
    /\ deferred' = << >>
    /\ UNCHANGED <<pc, tb, call, negation, done, regs, registered, sub, ev, eq, test, patch>>

NextConc ==
    \/ \E g \in Goroutines :
           \/ GoDeferRead(g)
           \/ GoDeferWrite(g)
           \/ GoDoneCall(g)
           \/ GoDoneReset(g)
           \/ GoCheckOrRun(g)
           \/ GoExit(g)
    \/ FinalDone

SpecConc == Init /\ [][NextConc]_vars

(***************************************************************************)
(* Properties of Check and Assert.                                         *)
(***************************************************************************)
\* the call on the C has ended (by returning or by panicking)
Called == pc = "returned"

\* the number of arguments left once a trailing Comment is set aside
NonCommentArgs(args) ==
    IF Len(args) > 0 /\ args[Len(args)].t = "Comment" THEN Len(args) - 1 ELSE Len(args)

\* the number of arguments besides got the checker of the call declares
Declared(checker) == Len(checker.argNames) - 1

ArityMismatch ==
    /\ Called
    /\ call.checker.kind # "nil"
    /\ NonCommentArgs(call.args) # Declared(call.checker)

ArityMessages(n, k) ==
    {"too many arguments provided to checker: got " \o ToString(n) \o ", want " \o ToString(k),
     "not enough arguments provided to checker: got " \o ToString(n) \o ", want " \o ToString(k)}

\* C1: with a non-nil checker declaring k arguments besides got, a call whose
\* argument list without its trailing Comment has n # k arguments returns
\* false, hands fail a BadUsage report whose message says got n and want k,
\* and invokes no Check method.
C1_ArityMismatchIsBadUsage ==
    ArityMismatch =>
        LET n == NonCommentArgs(call.args)
            k == Declared(call.checker)
            o == call.out
        IN /\ o.status = "returned"
           /\ o.ret = FALSE
           /\ o.invoked = << >>
           /\ Len(o.failed) = 1
           /\ o.failed[1].err.kind = "bad"
           /\ o.failed[1].err.msg \in ArityMessages(n, k)
           /\ o.failed[1].report[1].key = "error"
           /\ o.failed[1].report[1].v = o.failed[1].err.msg
           /\ Len(tb.Error) + Len(tb.Fatal) = 1

\* a call with too many arguments before a trailing Comment
C1_Witness ==
    /\ ArityMismatch
    /\ Len(call.args) = 2
    /\ call.args[2].t = "Comment"
    /\ Declared(call.checker) = 0
    /\ call.out.ret = FALSE

\* C2: a call that returns false has called exactly one TB callback, once, with
\* the rendered report: Error for Check, Fatal for Assert, and never the
\* other; a call that returns true has called neither.
C2_CheckErrorAssertFatal ==
    (Called /\ call.out.status = "returned") =>
        IF call.out.ret
        THEN tb.Error = << >> /\ tb.Fatal = << >>
        ELSE /\ Len(call.out.failed) = 1
             /\ call.entry = "Check" =>
                    tb.Error = << call.out.failed[1].report >> /\ tb.Fatal = << >>
             /\ call.entry = "Assert" =>
                    tb.Fatal = << call.out.failed[1].report >> /\ tb.Error = << >>

\* a failing Assert on a checker that ran
C2_Witness ==
    /\ Called
    /\ call.entry = "Assert"
    /\ call.out.status = "returned"
    /\ call.out.ret = FALSE
    /\ call.out.invoked # << >>
    /\ Len(tb.Fatal) = 1

\* the Check method reached by the call panics: == on two values of one
\* uncomparable type in Equals, or a user-implemented Check that panics
PanicInChecker ==
    /\ Called
    /\ call.checker.kind # "nil"
    /\ NonCommentArgs(call.args) = Declared(call.checker)
    /\ \/ /\ call.checker.kind = "equals"
          /\ call.got.t = call.args[1].t
          /\ call.got.t = "[]int"
       \/ /\ call.checker.kind = "user"
          /\ call.checker.result = "panic"

\* C3: no Check or Assert call lets a panic of the checker escape: the panic
\* becomes a Normal failure reported through fail and the call returns false.
C3_NoPanicEscapes ==
    PanicInChecker =>
        /\ call.out.status = "returned"
        /\ call.out.ret = FALSE
        /\ Len(call.out.failed) = 1
        /\ call.out.failed[1].err.kind = "normal"
        /\ Len(tb.Error) + Len(tb.Fatal) = 1

\* the sections of a report that writeError printed (all but sources)
Sections(r) == SubSeq(r, 1, Len(r) - 1)

\* the first section of secs whose rendered value string is that of section j
FirstWith(secs, j) ==
    CHOOSE i \in 1..j : secs[i].v = secs[j].v /\ \A h \in 1..(i - 1) : secs[h].v # secs[j].v

\* C4: in a report no rendered value string is printed twice: the first
\* section with a given string prints it and every later section with that
\* string prints <same as "K">, K the key of that first section.
C4_NoValuePrintedTwice ==
    (Called /\ call.out.failed # << >>) =>
        LET secs == Sections(call.out.failed[1].report)
        IN \A j \in 1..Len(secs) :
               LET i == FirstWith(secs, j)
               IN IF i = j
                  THEN secs[j].body = "  " \o secs[j].v \o "\n"
                  ELSE secs[j].body = "  <same as \"" \o secs[i].key \o "\">\n"

\* the call ends with a Comment, and the arguments before it
EndsWithComment == Called /\ Len(call.args) > 0 /\ call.args[Len(call.args)].t = "Comment"
BeforeComment == SubSeq(call.args, 1, Len(call.args) - 1)

\* C5: a Comment passed last is taken off before the arity is validated and
\* is not among the args any Check method receives; a report of the call
\* carries it as its comment.
C5_TrailingCommentDetached ==
    (EndsWithComment /\ call.checker.kind # "nil") =>
        LET o == call.out
        IN /\ (o.invoked # << >>) <=> (Len(BeforeComment) = Declared(call.checker))
           /\ \A i \in 1..Len(o.invoked) : o.invoked[i].args = BeforeComment
           /\ \A i \in 1..Len(o.failed) :
                  /\ o.failed[i].p.comment = call.args[Len(call.args)]
                  /\ o.failed[i].p.args = BeforeComment

\* Equals run on got and the one argument that precedes a trailing Comment
C5_Witness ==
    /\ EndsWithComment
    /\ call.checker.kind = "equals"
    /\ Len(call.args) = 2
    /\ call.args[2].v # ""
    /\ call.out.invoked # << >>
    /\ call.out.failed # << >>

\* the keys of a sequence of sections or notes
Keys(secs) == [i \in 1..Len(secs) |-> secs[i].key]

AfterNotes(f) ==
    LET lead == (IF f.report[1].key = "error" /\ f.err.kind # "silent" THEN 1 ELSE 0)
                + (IF f.p.comment.v # "" THEN 1 ELSE 0) + Len(f.p.notes)
    IN SubSeq(f.report, lead + 1, Len(f.report) - 1)

\* every note of the failure has its section, in order, after error and comment
NotesPrinted(f) ==
    \E lead \in 0..2 :
        /\ Len(f.report) >= lead + Len(f.p.notes) + 1
        /\ \A i \in 1..Len(f.p.notes) :
               /\ f.report[lead + i].key = f.p.notes[i].key
               /\ f.report[lead + i].v = Rendered(f.p.notes[i].value)

\* C7: a BadUsage error is printed with every note and without got and args;
\* the Silent error is not printed, nor are got and args, but every note is;
\* for any other error got and every arg are printed under declared names.
C7_BadUsageAndSilentHideArgs ==
    (Called /\ call.out.failed # << >>) =>
        LET f == call.out.failed[1]
        IN /\ NotesPrinted(f)
           /\ f.err.kind = "bad" =>
                  /\ f.report[1].key = "error" /\ f.report[1].v = f.err.msg
                  /\ AfterNotes(f) = << >>
           /\ f.err.kind = "silent" =>
                  /\ \A i \in 1..Len(f.report) : f.report[i].v # f.err.msg
                  /\ AfterNotes(f) = << >>
           /\ f.err.kind = "normal" =>
                  /\ f.report[1].key = "error" /\ f.report[1].v = f.err.msg
                  /\ Len(AfterNotes(f)) = 1 + Len(f.p.args)
                  /\ \A i \in 1..Len(AfterNotes(f)) :
                         /\ AfterNotes(f)[i].key = call.checker.argNames[i]
                         /\ AfterNotes(f)[i].v = Rendered((<<call.got>> \o f.p.args)[i])

\* a Silent failure that emitted notes
C7_Witness ==
    /\ Called
    /\ call.out.failed # << >>
    /\ call.out.failed[1].err.kind = "silent"
    /\ Len(call.out.failed[1].p.notes) = 2
    /\ Len(call.out.failed[1].p.args) = 1

\* C16: a Check or Assert call given the nil checker returns false, calls
\* its fail callback once (Error for Check, Fatal for Assert) with the report
\* of the BadUsage error 'nil checker provided', whatever got and the other
\* arguments are, and invokes no Check method.
C16_NilCheckerIsBadUsage ==
    (Called /\ call.checker.kind = "nil") =>
        LET o == call.out
        IN /\ o.status = "returned"
           /\ o.ret = FALSE
           /\ o.invoked = << >>
           /\ Len(o.failed) = 1
           /\ o.failed[1].err = [kind |-> "bad", msg |-> "nil checker provided"]
           /\ Keys(o.failed[1].report) = <<"error", "sources">>
           /\ o.failed[1].report[1].body = "  nil checker provided\n"
           /\ IF call.entry = "Check"
              THEN tb.Error = << o.failed[1].report >> /\ tb.Fatal = << >>
              ELSE tb.Fatal = << o.failed[1].report >> /\ tb.Error = << >>

\* Assert given the nil checker, an argument and a comment
C16_Witness ==
    /\ Called
    /\ call.checker.kind = "nil"
    /\ call.entry = "Assert"
    /\ Len(call.args) = 2
    /\ call.args[2].t = "Comment"
    /\ Len(tb.Fatal) = 1

(***************************************************************************)
(* Properties of Not.                                                      *)
(***************************************************************************)
Negated == negation.n >= 0

\* C8: Not applied n times to C ends as C does when n is even and as Not(C)
\* does when n is odd: the same success, or the same error.
C8_NotNTimes ==
    Negated =>
        IF negation.n % 2 = 0
        THEN negation.res = negation.plain
        ELSE negation.res = negation.once

\* Not(Not(C)) run where C fails with an error of its own
C8_Witness ==
    /\ Negated
    /\ negation.n = 2
    /\ negation.plain.err.kind = "normal"
    /\ negation.res.err = negation.plain.err

\* C9: for C that is not a Not checker, Not(C) returns C's BadUsage error
\* unchanged, succeeds when C returns any other error, fails with 'unexpected
\* success' when C succeeds, and declares the argument names of C.
C9_NotPropagatesBadUsage ==
    (Negated /\ ~negation.plain.panicked) =>
        /\ ~negation.once.panicked
        /\ negation.plain.err.kind = "bad" => negation.once.err = negation.plain.err
        /\ negation.plain.err.kind \in {"normal", "silent"} => negation.once.err.kind = "nil"
        /\ negation.plain.err.kind = "nil" =>
               negation.once.err = [kind |-> "normal", msg |-> "unexpected success"]
        /\ negation.argNames = negation.base.argNames

\* Not(C) run where C returns a BadUsage error
C9_Witness ==
    /\ Negated
    /\ negation.n = 1
    /\ negation.plain.err.kind = "bad"
    /\ negation.res.err.kind = "bad"

(***************************************************************************)
(* Properties of Defer and Done.                                           *)
(***************************************************************************)
Reverse(s) == [i \in 1..Len(s) |-> s[Len(s) + 1 - i]]

\* C10: Done calls the functions registered by Defer (or AddCleanup) since
\* the last Done, each once, the last registered first.
C10_DoneRunsInReverseOrder ==
    /\ done.phase = "finished" => done.called = Reverse(done.regs)
    /\ done.phase = "running" =>
           done.called \o done.rest = Reverse(done.regs)

\* a Done that ran three different functions
C10_Witness ==
    /\ done.phase = "finished"
    /\ done.regs = <<"f", "g", "h">>
    /\ done.called = <<"h", "g", "f">>

\* the number of times f occurs in the sequence s
Count(s, f) == Cardinality({i \in 1..Len(s) : s[i] = f})

\* C11: a Done entered when no Defer was called since the last Done (or since
\* New) calls no function, a Done that has returned or unwound leaves
\* registered only what Defer was given after it, and over all the Done
\* calls made on the C no function was called more often than it was
\* registered.
C11_DoneUnregisters ==
    /\ (done.phase # "idle" /\ done.regs = << >>) =>
           done.called = << >> /\ done.rest = << >>
    /\ done.phase = "finished" => deferred = Reverse(regs)
    /\ \A f \in AllFuncs : Count(done.log, f) <= Count(registered, f)

\* a second Done, after one that called two functions, has called nothing
C11_Witness ==
    /\ done.phase = "finished"
    /\ done.regs = << >>
    /\ done.called = << >>
    /\ done.log = <<"g", "f">>
    /\ registered = <<"f", "g">>

\* the registered functions that panic or call Goexit, by position
Abrupt(fs) == {i \in 1..Len(fs) : FuncEnd(fs[i]) # NoUnwind}
\* the earliest registered of them
Earliest(fs) == CHOOSE i \in Abrupt(fs) : \A j \in Abrupt(fs) : i <= j

\* C12: a Done during which registered functions panic or call Goexit still
\* calls every registered function once, the last registered first; it ends
\* as the earliest registered of these functions does, so a panic that
\* leaves Done is the one of the earliest registered panicking function; and
\* it leaves registered only what Defer is given after it, so that the next
\* Done calls nothing more and does not panic.
C12_PanicsDoNotStopDone ==
    done.phase = "finished" =>
        /\ done.called = Reverse(done.regs)
        /\ deferred = Reverse(regs)
        /\ done.regs = << >> => done.unwind = NoUnwind
        /\ IF Abrupt(done.regs) = {}
           THEN done.unwind = NoUnwind
           ELSE done.unwind = FuncEnd(done.regs[Earliest(done.regs)])
        /\ done.unwind.kind = "panic" =>
               \E i \in 1..Len(done.regs) :
                   /\ done.regs[i] = done.unwind.value
                   /\ \A j \in 1..(i - 1) : done.regs[j] \notin Panics

\* two functions panicked, a function between them was called, and the panic
\* of the one registered first left Done
C12_Witness ==
    /\ done.phase = "finished"
    /\ done.regs = <<"scream and shout", "f", "run in circles">>
    /\ done.called = <<"run in circles", "f", "scream and shout">>
    /\ done.unwind = [kind |-> "panic", value |-> "scream and shout"]

\* C13: once every goroutine has ended and the final Done has run, each
\* function passed to Defer by any goroutine has been called exactly once.
C13_ConcurrentDeferRunsOnce ==
    conc.phase = "final" =>
        \A f \in 1..conc.passed : Count(conc.ran, f) = 1

(***************************************************************************)
(* Properties of Run and Parallel.                                         *)
(***************************************************************************)
\* Run called its subtest function
InSubtest == sub.op = "Run" /\ sub.ran

\* C14: the C handed to the subtest function is not the parent C and wraps
\* the testing object of the subtest; once the function has ended, however
\* it ended, Run has called Done on that C once, which called each function
\* registered on it once, and no function registered on the parent was
\* called.
C14_RunUsesNewC ==
    InSubtest =>
        /\ sub.inner.id # sub.parent.id
        /\ sub.inner.TB = "subTestT"
        /\ sub.inner.TB # sub.parent.TB
        /\ \A i \in 1..Len(done.log) : done.log[i] \notin ParentFuncs
        /\ sub.phase \in {"returned", "unwound"} =>
               /\ done.phase = "finished"
               /\ done.called = Reverse(registered)
               /\ done.log = done.called
               /\ deferred = << >>
               /\ sub.unwind = sub.fEnd

\* a subtest function that registered two functions and called Goexit, on a
\* parent with a function of its own
C14_Witness ==
    /\ InSubtest
    /\ sub.phase = "unwound"
    /\ sub.fEnd.kind = "goexit"
    /\ sub.parent.deferred = <<"outer">>
    /\ done.called = <<"g", "f">>

EvRun == ev.phase # "idle"

\* got is a function with no parameter and one result
GoodSubject == ev.got.kind = "func" /\ ev.got.numIn = 0 /\ ev.got.numOut = 1

Last(s) == s[Len(s)]

\* C17: when got is not a function, or is a function with parameters, or a
\* function that does not return exactly one value, Eventually ends at once
\* with a BadUsage error and has called neither got nor the wrapped checker;
\* any other got is polled.
C17_EventuallyValidatesSubject ==
    EvRun =>
        IF GoodSubject
        THEN ev.phase = "ended" => ev.calls # << >>
        ELSE /\ ev.phase = "ended"
             /\ ev.result.kind = "bad"
             /\ ev.result.msg \in {"first argument is not a function",
                                    "cannot use a function receiving arguments",
                                    "cannot use a function returning more than one value"}
             /\ ev.calls = << >>
             /\ ev.polls = << >>
             /\ ev.stables = << >>

\* a function with a parameter and one result handed to Eventually(Equals)
C17_Witness ==
    /\ EvRun
    /\ ev.got = [kind |-> "func", numIn |-> 1, numOut |-> 1]
    /\ ev.checker.kind = "equals"
    /\ ev.phase = "ended"
    /\ ev.result.kind = "bad"

\* C18: each attempt calls the subject once and then the wrapped checker
\* once, on what the subject returned; every polling attempt but the last
\* failed; a successful attempt ends the polling and, with no stable
\* strategy, ends the check with success and no further call; when the
\* check ends after a failed last polling attempt its result is the Normal
\* error 'tried for <MaxDuration>, <error of the last attempt>'.
C18_EventuallyPolls ==
    (EvRun /\ GoodSubject) =>
        /\ Len(ev.calls) = (Len(ev.polls) + Len(ev.stables)) * 2
        /\ \A i \in 1..Len(ev.calls) :
               ev.calls[i] = IF i % 2 = 1 THEN "subject" ELSE "checker"
        /\ \A i \in 1..Len(ev.polls) :
               ev.polls[i].err = CheckerCheck(ev.checker, ev.polls[i].got, ev.args).err
        /\ \A i \in 1..(Len(ev.polls) - 1) : ev.polls[i].err # NoErr
        /\ ev.phase = "ended" =>
               /\ ev.polls # << >>
               /\ Last(ev.polls).err # NoErr =>
                      /\ ev.result =
                             [kind |-> "normal",
                              msg |-> "tried for 100ms, " \o Last(ev.polls).err.msg]
                      /\ ev.stables = << >>
               /\ (Last(ev.polls).err = NoErr /\ ev.stableRetryStrategy = NoStrategy) =>
                      /\ ev.result = NoErr
                      /\ ev.stables = << >>
        /\ (ev.polls # << >> /\ Last(ev.polls).err = NoErr) => ev.phase # "polling"

\* Equals failed on every attempt the strategy allowed, the last on values
\* that cannot be compared
C18_Witness ==
    /\ EvRun
    /\ ev.phase = "ended"
    /\ ev.checker.kind = "equals"
    /\ Len(ev.polls) = MaxAttempts
    /\ ev.polls[1].err.msg = "values are not equal"
    /\ ev.result.msg = "tried for 100ms, runtime error: comparing uncomparable type []int"

\* C19: the stability phase is entered only with a stable strategy set and
\* after a polling attempt succeeded; every stability attempt but the last
\* succeeded; a failed one ends the check with the Normal error 'less than
\* <MaxDuration> after an initial success, <error>'; a check that ends
\* after stability attempts that all succeeded ends with success, and with a
\* stable strategy set no check ends with success before one such attempt.
C19_EventuallyStable ==
    (EvRun /\ GoodSubject) =>
        /\ (ev.phase = "stable" \/ ev.stables # << >>) =>
               /\ ev.stableRetryStrategy # NoStrategy
               /\ ev.polls # << >>
               /\ Last(ev.polls).err = NoErr
        /\ \A i \in 1..(Len(ev.stables) - 1) : ev.stables[i].err = NoErr
        /\ (ev.stables # << >> /\ Last(ev.stables).err # NoErr) =>
               /\ ev.phase = "ended"
               /\ ev.result =
                      [kind |-> "normal",
                       msg |-> "less than 150ms after an initial success, "
                               \o Last(ev.stables).err.msg]
        /\ (ev.phase = "ended" /\ ev.stables # << >> /\ Last(ev.stables).err = NoErr) =>
               ev.result = NoErr
        /\ (ev.phase = "ended" /\ ev.result = NoErr
              /\ ev.stableRetryStrategy # NoStrategy) => ev.stables # << >>

\* Equals succeeded at the second attempt, held once and then failed
C19_Witness ==
    /\ EvRun
    /\ ev.phase = "ended"
    /\ ev.checker.kind = "equals"
    /\ Len(ev.polls) = 2
    /\ Len(ev.stables) = 2
    /\ ev.result.msg = "less than 150ms after an initial success, values are not equal"

(***************************************************************************)
(* Properties of Equals and DeepEquals.                                    *)
(***************************************************************************)
\* want is a copy of got made apart from it: the same type and the same
\* content, held at another address when they are pointers
StructuralCopy ==
    /\ eq.phase = "compared"
    /\ eq.want.t = eq.got.t
    /\ Content(eq.want) = Content(eq.got)
    /\ IsPtr(eq.got) => eq.want.v # eq.got.v

Succeeded(r) == ~r.panicked /\ r.err = NoErr
FailedWith(r, msg) == ~r.panicked /\ r.err = [kind |-> "normal", msg |-> msg]

InvalidPattern ==
    /\ test.phase = "checked"
    /\ test.checker \in {Matches, ErrorMatches, PanicMatches}
    /\ \/ test.args[1].t # "string"
       \/ regexpMatchString("^(" \o test.args[1].v \o ")$", "").err # ""

\* C21: Matches, ErrorMatches and PanicMatches given a pattern that is not a
\* string or does not compile return a BadCheck error whatever got is (for
\* PanicMatches whether the function panics or not), and so does Not of them:
\* neither a Normal failure nor a success comes out.
C21_InvalidPatternIsBadUsage ==
    InvalidPattern =>
        /\ ~test.res.panicked /\ IsBadCheck(test.res.err)
        /\ ~test.negated.panicked /\ IsBadCheck(test.negated.err)

\* the entry under way hands ErrorIs or ErrorAs the given got
ErrorEntry(types) ==
    /\ test.phase = "checked"
    /\ test.checker \in {ErrorIs, ErrorAs}
    /\ test.got.t \in types

C23_FormatNeverPanics ==
    test.phase = "formatted" =>
        /\ test.got.panic = ""
        /\ test.got.s # ""
        /\ (MethodPanics(test.value) /\ IsNilPtr(test.value)) =>
               test.got.s = (IF test.value.t = "error" THEN "e<nil>" ELSE "s<nil>")

(***************************************************************************)
(* Properties of Patch, Setenv and Unsetenv.                               *)
(***************************************************************************)
\* C24: once Done has run after any calls of Patch, Setenv and Unsetenv,
\* several on one destination or variable included, every destination holds
\* the value it had before the first Patch and every environment variable
\* is as it was: set to its first value, or unset.
C24_DoneRestoresPatched ==
    patch.last = "Done" =>
        /\ patch.dest = NoPatch.dest
        /\ \A n \in DOMAIN patch.env :
               /\ patch.env[n].ok = NoPatch.env[n].ok
               /\ patch.env[n].ok => patch.env[n].val = NoPatch.env[n].val
        /\ patch.deferred = << >>

\* Done has put back a destination patched twice and a variable that was
\* not set at first
C24_Witness ==
    /\ patch.last = "Done"
    /\ Len(patch.ran) = 3
    /\ patch.ran[1].op = "set" /\ patch.ran[2].op = "set"
    /\ patch.ran[1].name = patch.ran[2].name
    /\ patch.ran[1].old # patch.ran[2].old
    /\ patch.ran[3] = [op |-> "env", name |-> "OTHER_VAR", old |-> [val |-> "", ok |-> FALSE]]

(***************************************************************************)
(* Termination of Eventually.                                              *)
(***************************************************************************)
\* C25: a run of Eventually whose subject and wrapped checker return at
\* every call ends: the polling ends after finitely many attempts, by a
\* success or when the retry strategy has no attempt left, and so does the
\* stability phase, by a failure or when the stable strategy has no attempt
\* left; a run that ended on a valid subject called it at least once.
C25_EventuallyTerminates ==
    /\ (ev.phase = "polling") ~> (ev.phase \in {"stable", "ended"})
    /\ (ev.phase = "stable") ~> (ev.phase = "ended")
    /\ [](ev.phase \in {"stable", "ended"} /\ GoodSubject =>
           Len(ev.polls) >= 1 /\ ev.calls[1] = "subject")

\* a run that used up both strategies: the polling succeeded at its last
\* attempt and the stability phase made every attempt it had
C25_Witness ==
    /\ EvRun /\ GoodSubject
    /\ Len(ev.polls) = MaxAttempts
    /\ Len(ev.stables) = MaxAttempts
    /\ ev.result = NoErr

(***************************************************************************)
(* Notes and BadCheck errors through Eventually.                           *)
(***************************************************************************)
\* the attempts of the run, those of the stability phase last
Attempts == ev.polls \o ev.stables

\* C28: the notes a run of Eventually forwards are the notes the wrapped
\* checker emitted at its last call, in their order, and then one note got
\* holding the value the subject returned last, or the got given when it is
\* no valid subject and was never called; no note of an earlier attempt is
\* forwarded.
C28_EventuallyForwardsLastNotes ==
    ev.phase = "ended" =>
        IF Attempts = << >>
        THEN ev.forwarded = << [key |-> "got", value |-> ev.got] >>
        ELSE ev.forwarded =
                 Append(Last(Attempts).notes, [key |-> "got", value |-> Last(Attempts).got])

\* a run of several attempts, the first of which emitted a note the last
\* did not
C28_Witness ==
    /\ ev.phase = "ended"
    /\ Len(Attempts) >= 2
    /\ Attempts[1].notes # << >>
    /\ Last(Attempts).notes # << >>
    /\ Attempts[1].notes # Last(Attempts).notes
    /\ Len(ev.forwarded) = 2

\* C29: when the wrapped checker returned a BadCheck error for the value
\* polled last, the error Eventually returns is a BadCheck error too, so
\* that Not(Eventually(C)) does not succeed because C was badly invoked.
C29_EventuallyKeepsBadUsage ==
    (ev.phase = "ended" /\ Attempts # << >> /\ IsBadCheck(Last(Attempts).err)) =>
        IsBadCheck(ev.result)

(***************************************************************************)
(* Properties of the source excerpt.                                       *)
(***************************************************************************)
Min(a, b) == IF a < b THEN a ELSE b
Max(a, b) == IF a > b THEN a ELSE b

\* the lines of code written, and the other lines written after the heading
CodeLines == SelectSeq(test.out, LAMBDA l : l.n # 0)
Placeholders == SelectSeq(Tail(test.out), LAMBDA l : l.n = 0)

\* the lines numbered from..to in order, the one numbered line marked
Window(from, to, line) ==
    /\ Len(CodeLines) = Max(0, to - from + 1)
    /\ \A i \in 1..Len(CodeLines) :
           /\ CodeLines[i].n = from + i - 1
           /\ CodeLines[i].mark = (CodeLines[i].n = line)

\* no frame, and a file that cannot be opened: a placeholder and no line
Unavailable ==
    /\ ~test.caller.ok => test.out = << [n |-> 0, mark |-> FALSE,
                                         text |-> "  <invocation not available>"] >>
    /\ (test.caller.ok /\ ~test.caller.file.opens) =>
           /\ CodeLines = << >>
           /\ Len(Placeholders) = 1
           /\ Placeholders[1].text = "    <cannot open source file: open report_test.go"
                                     \o ": no such file or directory>"

\* C26 as stated: the excerpt holds the lines max(1, line-3) to min(last
\* line, line+3) of the file of the call, in order, and marks the line of the
\* call and no other; with no frame it is <invocation not available> alone,
\* with a file that cannot be opened <cannot open source file: ...> and no
\* line, with a call past the end of the file no line is marked and
\* <cannot find source lines> is written.
C26_SourceWindow ==
    test.phase = "reported" =>
        /\ Unavailable
        /\ (test.caller.ok /\ test.caller.file.opens) =>
               LET line == test.caller.line
                   last == test.caller.file.last
               IN /\ Window(Max(1, line - contextLines), Min(last, line + contextLines), line)
                  /\ IF line <= last
                     THEN Placeholders = << >>
                     ELSE /\ Len(Placeholders) = 1
                          /\ Placeholders[1].text = "    <cannot find source lines>"

\* C26 amended: the same when the file is read without an error; when the
\* scanner fails at a line it reaches (one not after line+4), the excerpt
\* ends before that line and <cannot scan source file: ...> is written, in
\* place of <cannot find source lines> when the line of the call was not
\* reached.
C26_SourceWindowOrScanError ==
    test.phase = "reported" =>
        /\ Unavailable
        /\ (test.caller.ok /\ test.caller.file.opens) =>
               LET line == test.caller.line
                   last == test.caller.file.last
                   bad == test.caller.file.badLine
                   failed == bad # 0 /\ bad <= line + contextLines + 1
                   read == IF failed THEN bad - 1 ELSE last
               IN /\ Window(Max(1, line - contextLines), Min(read, line + contextLines), line)
                  /\ Len(Placeholders) = (IF failed \/ line > read THEN 1 ELSE 0)
                  /\ failed => Placeholders[1].text =
                         "    <cannot scan source file: bufio.Scanner: token too long>"
                  /\ (~failed /\ line > last) =>
                         Placeholders[1].text = "    <cannot find source lines>"

\* an excerpt of seven lines cut out of a longer file, the fourth marked
C26_Witness ==
    /\ test.phase = "reported"
    /\ Len(CodeLines) = 2 * contextLines + 1
    /\ CodeLines[1].n > 1
    /\ CodeLines[contextLines + 1].mark
    /\ test.caller.file.last > test.caller.line + contextLines
    /\ Len(test.out) = 2 * contextLines + 2

(***************************************************************************)
(* The report of an arity mismatch.                                        *)
(***************************************************************************)
\* the arguments of the call without its trailing Comment
Supplied == SubSeq(call.args, 1, NonCommentArgs(call.args))

\* fmt.Sprintf("%v", x)
Plain(x) == IF x.t = "[]int" THEN "[" \o x.v \o "]" ELSE x.v

\* messages that name the surplus values or the missing names after the
\* counts, with or without the name of the checker
NamingMessages(n, k) ==
    LET names == call.checker.argNames
        counts == ": got " \o ToString(n) \o ", want " \o ToString(k)
        listed == IF n > k
                  THEN ": unexpected "
                       \o Join([i \in 1..(n - k) |-> Plain(Supplied[k + i])], ", ")
                  ELSE ", missing "
                       \o Join([i \in 1..(k - n) |-> names[n + 1 + i]], ", ")
        to == IF n > k THEN "too many arguments provided to "
              ELSE "not enough arguments provided to "
    IN {to \o "checker" \o counts \o listed,
        to \o quoteString(call.checker.name) \o " checker" \o counts \o listed}

\* the notes of the report: got args holds the supplied arguments when
\* there is one, want args the names after got when there is one
MismatchNotes(n, k) ==
    call.out.failed[1].p.notes =
        (IF n > 0 THEN << [key |-> "got args", value |-> ArgsValue(Supplied)] >> ELSE << >>)
        \o (IF k > 0
            THEN << [key |-> "want args",
                     value |-> Unquoted(Join(Tail(call.checker.argNames), ", "))] >>
            ELSE << >>)

Late(fs) == SelectSeq(fs, LAMBDA f : f \in LateFuncs)

====
